---------------------------- MODULE Spec2Model ----------------------------
(***************************************************************************)
(* Tilora: the BSP layout tree (src/renderer/layout/bsp.ts, lines 1-489)   *)
(* and the IPC-based TileManager (same file, lines 491-1771).              *)
(*                                                                         *)
(* Numbers.  A split ratio is a JavaScript number; here it is an integer   *)
(* count of hundredths (RatioScale), so 0.5 is 50, 0.05 is 5, and the      *)
(* clamp [0.1, 0.9] is [MinRatio, MaxRatio].  Pixel coordinates are        *)
(* integers.  Math.round is round-half-up on the exact rational.           *)
(*                                                                         *)
(* Identifiers.  uuidv4() in the renderer returns an identifier that was   *)
(* never returned before: here the positive integers in increasing order   *)
(* (nextUuid).  A draw whose value is dropped at once (splitNode's         *)
(* newTileId when the target is absent) does not advance the counter.      *)
(* 0 is null where an identifier is expected, Null where a node or a       *)
(* result is expected.                                                     *)
(***************************************************************************)
EXTENDS Integers, Sequences, FiniteSets, Bags, TLC

VARIABLES
    layout,         \* TileManager.layout, or the tree under test
    tileProxies,    \* TileManager.tileProxies: the tile ids it has a proxy for
    proxyBounds,    \* the `bounds` field of each proxy of tileProxies
    sleepingTiles,  \* TileManager.sleepingTiles: set of tile ids
    snapshots,      \* the `snapshot` field of each record of sleepingTiles
    focusedTileId,  \* TileManager.focusedTileId (0 = null)
    container,      \* container.getBoundingClientRect(): <<width, height>>
    procs,          \* bag of async calls awaiting the view provider
    order,          \* the calls of procs the provider answers in turn
    proxyOf,        \* the proxy object each entry of tileProxies holds
    proxyObjects,   \* url, title and isMuted of each proxy object in use
    sleepingInfo,   \* url, title and isMuted of each record of sleepingTiles
    views,          \* TileViewManager.views: url and isMuted of each view
    nextUuid,       \* the next identifier uuidv4() returns in the renderer
    result          \* the last layout-tree call under test: name, inputs, output

vars == <<layout, tileProxies, proxyBounds, sleepingTiles, snapshots, focusedTileId,
          container, procs, order, proxyOf, proxyObjects, sleepingInfo, views,
          nextUuid, result>>

-----------------------------------------------------------------------------
(* Representation *)

RatioScale == 100
MinRatio == 10
MaxRatio == 90
AdjacentTolerance == 5
sleepThresholdWidth == 200
sleepThresholdHeight == 150

Null == [type |-> "null"]

Max(a, b) == IF a >= b THEN a ELSE b
Min(a, b) == IF a <= b THEN a ELSE b
Abs(a) == IF a >= 0 THEN a ELSE -a

\* Math.round(num / den), den > 0: the nearest integer, a half rounded up.
MathRound(num, den) == (2 * num + den) \div (2 * den)

\* n successive uuidv4() draws, the next unused identifier being `next`
Uuids(next, n) == [i \in 1..n |-> next + i - 1]

-----------------------------------------------------------------------------
(* Layout tree: bsp.ts 45-489 *)

\* createLeaf(tileId), the leaf's own id being the uuid draw u
createLeaf(u, tileId) == [type |-> "leaf", id |-> u, tileId |-> tileId]

\* splitNodeRecursive, were the new leaf made the first child
RECURSIVE splitNodeRecursiveNewFirst(_, _, _, _, _, _, _)
splitNodeRecursiveNewFirst(node, targetId, direction, ratio, newTileId, uLeaf, uSplit) ==
    IF node.type = "leaf"
    THEN IF node.id = targetId \/ node.tileId = targetId
         THEN [type |-> "split", id |-> uSplit, direction |-> direction,
               ratio |-> ratio, first |-> createLeaf(uLeaf, newTileId),
               second |-> node]
         ELSE Null
    ELSE LET firstResult ==
                 splitNodeRecursiveNewFirst(node.first, targetId, direction,
                                            ratio, newTileId, uLeaf, uSplit)
         IN  IF firstResult # Null
             THEN [node EXCEPT !.first = firstResult]
             ELSE LET secondResult ==
                          splitNodeRecursiveNewFirst(node.second, targetId,
                                                     direction, ratio,
                                                     newTileId, uLeaf, uSplit)
                  IN  IF secondResult # Null
                      THEN [node EXCEPT !.second = secondResult]
                      ELSE Null

RECURSIVE splitNodeRecursive(_, _, _, _, _, _, _)
splitNodeRecursive(node, targetId, direction, ratio, newTileId, uLeaf, uSplit) ==
    IF node.type = "leaf"
    THEN IF node.id = targetId \/ node.tileId = targetId
         THEN [type |-> "split", id |-> uSplit, direction |-> direction,
               ratio |-> ratio, first |-> node,
               second |-> createLeaf(uLeaf, newTileId)]
         ELSE Null
    ELSE LET firstResult ==
                 splitNodeRecursive(node.first, targetId, direction, ratio,
                                    newTileId, uLeaf, uSplit)
         IN  IF firstResult # Null
             THEN [node EXCEPT !.first = firstResult]
             ELSE LET secondResult ==
                          splitNodeRecursive(node.second, targetId, direction,
                                             ratio, newTileId, uLeaf, uSplit)
                  IN  IF secondResult # Null
                      THEN [node EXCEPT !.second = secondResult]
                      ELSE Null

\* splitNode; u = <<newTileId, new leaf id, new split id>> are its uuid draws
splitNode(root, targetId, direction, ratio, u) ==
    LET res == splitNodeRecursive(root, targetId, direction, ratio,
                                  u[1], u[2], u[3])
    IN  IF res # Null THEN [newRoot |-> res, newTileId |-> u[1]] ELSE Null

IsTarget(node, targetId) ==
    node.type = "leaf" /\ (node.id = targetId \/ node.tileId = targetId)

\* removeNode, were it to keep the second child whichever child is removed
RECURSIVE removeNodeKeepingSecond(_, _)
removeNodeKeepingSecond(root, targetId) ==
    IF root.type = "leaf"
    THEN IF IsTarget(root, targetId) THEN Null ELSE root
    ELSE IF IsTarget(root.first, targetId) THEN root.second
    ELSE IF IsTarget(root.second, targetId) THEN root.second
    ELSE LET newFirst == removeNodeKeepingSecond(root.first, targetId)
         IN  IF newFirst # root.first
             THEN IF newFirst = Null THEN root.second
                  ELSE [root EXCEPT !.first = newFirst]
             ELSE LET newSecond == removeNodeKeepingSecond(root.second, targetId)
                  IN  IF newSecond # root.second
                      THEN IF newSecond = Null THEN root.second
                           ELSE [root EXCEPT !.second = newSecond]
                      ELSE root

\* removeNode.  `newFirst !== root.first` compares references; removeNode
\* returns its argument itself whenever it removes nothing and a smaller
\* tree otherwise, so the comparison is structural inequality.
\* removeNode, were a leaf to give the empty signal whatever the target
RECURSIVE removeNodeEmptyingLeaf(_, _)
removeNodeEmptyingLeaf(root, targetId) ==
    IF root.type = "leaf" THEN Null
    ELSE IF IsTarget(root.first, targetId) THEN root.second
    ELSE IF IsTarget(root.second, targetId) THEN root.first
    ELSE LET newFirst == removeNodeEmptyingLeaf(root.first, targetId)
         IN  IF newFirst # root.first
             THEN IF newFirst = Null THEN root.second
                  ELSE [root EXCEPT !.first = newFirst]
             ELSE LET newSecond == removeNodeEmptyingLeaf(root.second, targetId)
                  IN  IF newSecond # root.second
                      THEN IF newSecond = Null THEN root.first
                           ELSE [root EXCEPT !.second = newSecond]
                      ELSE root

\* removeNode, were it to look for the target below the first child only
RECURSIVE removeNodeInFirstOnly(_, _)
removeNodeInFirstOnly(root, targetId) ==
    IF root.type = "leaf"
    THEN IF IsTarget(root, targetId) THEN Null ELSE root
    ELSE IF IsTarget(root.first, targetId) THEN root.second
    ELSE IF IsTarget(root.second, targetId) THEN root.first
    ELSE LET newFirst == removeNodeInFirstOnly(root.first, targetId)
         IN  IF newFirst # root.first
             THEN IF newFirst = Null THEN root.second
                  ELSE [root EXCEPT !.first = newFirst]
             ELSE root

RECURSIVE removeNode(_, _)
removeNode(root, targetId) ==
    IF root.type = "leaf"
    THEN IF IsTarget(root, targetId) THEN Null ELSE root
    ELSE IF IsTarget(root.first, targetId) THEN root.second
    ELSE IF IsTarget(root.second, targetId) THEN root.first
    ELSE LET newFirst == removeNode(root.first, targetId)
         IN  IF newFirst # root.first
             THEN IF newFirst = Null THEN root.second
                  ELSE [root EXCEPT !.first = newFirst]
             ELSE LET newSecond == removeNode(root.second, targetId)
                  IN  IF newSecond # root.second
                      THEN IF newSecond = Null THEN root.first
                           ELSE [root EXCEPT !.second = newSecond]
                      ELSE root

\* The clamp, were it to leave its argument as it is
ClampLeftOut(r) == r

\* Math.max(0.1, Math.min(0.9, r))
Clamp(r) == Max(MinRatio, Min(MaxRatio, r))

\* resizeSplit, were it to look for the split in second children only
RECURSIVE resizeSplitInSecond(_, _, _)
resizeSplitInSecond(root, splitId, newRatio) ==
    IF root.type = "leaf" THEN root
    ELSE IF root.id = splitId THEN [root EXCEPT !.ratio = Clamp(newRatio)]
    ELSE [root EXCEPT
             !.second = resizeSplitInSecond(root.second, splitId, newRatio)]

\* resizeSplit (156-176)
RECURSIVE resizeSplit(_, _, _)
resizeSplit(root, splitId, newRatio) ==
    IF root.type = "leaf" THEN root
    ELSE IF root.id = splitId THEN [root EXCEPT !.ratio = Clamp(newRatio)]
    ELSE [root EXCEPT !.first = resizeSplit(root.first, splitId, newRatio),
                      !.second = resizeSplit(root.second, splitId, newRatio)]

Bounds(x, y, w, h) == [x |-> x, y |-> y, width |-> w, height |-> h]

\* The divider of a split: Math.round(origin + extent * ratio)
Divider(origin, extent, ratio) ==
    MathRound(origin * RatioScale + extent * ratio, RatioScale)

\* calculateBounds, were the second child's extent rounded on its own
\* (extent * (1 - ratio)) rather than taken as what the first leaves
RECURSIVE calculateBoundsRoundingBoth(_, _)
calculateBoundsRoundingBoth(node, cb) ==
    IF node.type = "leaf"
    THEN << [tileId |-> node.tileId, bounds |-> cb] >>
    ELSE IF node.direction = "vertical"
         THEN LET splitX == Divider(cb.x, cb.width, node.ratio)
                  rest == MathRound(cb.width * (RatioScale - node.ratio),
                                    RatioScale)
              IN  calculateBoundsRoundingBoth(node.first,
                      Bounds(cb.x, cb.y, splitX - cb.x, cb.height))
                  \o calculateBoundsRoundingBoth(node.second,
                      Bounds(splitX, cb.y, rest, cb.height))
         ELSE LET splitY == Divider(cb.y, cb.height, node.ratio)
                  rest == MathRound(cb.height * (RatioScale - node.ratio),
                                    RatioScale)
              IN  calculateBoundsRoundingBoth(node.first,
                      Bounds(cb.x, cb.y, cb.width, splitY - cb.y))
                  \o calculateBoundsRoundingBoth(node.second,
                      Bounds(cb.x, splitY, cb.width, rest))

RECURSIVE calculateBounds(_, _)
calculateBounds(node, cb) ==
    IF node.type = "leaf"
    THEN << [tileId |-> node.tileId, bounds |-> cb] >>
    ELSE IF node.direction = "vertical"
         THEN LET splitX == Divider(cb.x, cb.width, node.ratio)
              IN  calculateBounds(node.first,
                                  Bounds(cb.x, cb.y, splitX - cb.x, cb.height))
                  \o calculateBounds(node.second,
                                  Bounds(splitX, cb.y, cb.x + cb.width - splitX,
                                         cb.height))
         ELSE LET splitY == Divider(cb.y, cb.height, node.ratio)
              IN  calculateBounds(node.first,
                                  Bounds(cb.x, cb.y, cb.width, splitY - cb.y))
                  \o calculateBounds(node.second,
                                  Bounds(cb.x, splitY, cb.width,
                                         cb.y + cb.height - splitY))

RECURSIVE getAllTileIds(_)
getAllTileIds(node) ==
    IF node.type = "leaf" THEN <<node.tileId>>
    ELSE getAllTileIds(node.first) \o getAllTileIds(node.second)

RECURSIVE countTiles(_)
countTiles(node) ==
    IF node.type = "leaf" THEN 1
    ELSE countTiles(node.first) + countTiles(node.second)

RECURSIVE findParentSplit(_, _, _)
findParentSplit(root, tileId, parent) ==
    IF root.type = "leaf"
    THEN IF root.tileId = tileId THEN parent ELSE Null
    ELSE LET inFirst == findParentSplit(root.first, tileId, root)
         IN  IF inFirst # Null THEN inFirst
             ELSE findParentSplit(root.second, tileId, root)

\* swapTiles, were it to rename tileId1 and leave tileId2 as it is
RECURSIVE swapTilesOneWay(_, _, _)
swapTilesOneWay(root, tileId1, tileId2) ==
    IF root.type = "leaf"
    THEN IF root.tileId = tileId1 THEN [root EXCEPT !.tileId = tileId2]
         ELSE root
    ELSE [root EXCEPT !.first = swapTilesOneWay(root.first, tileId1, tileId2),
                      !.second = swapTilesOneWay(root.second, tileId1, tileId2)]

\* swapTilesRecursive, were the two children of a split to change places
\* along with the tile ids
RECURSIVE swapTilesRecursiveTurning(_, _, _)
swapTilesRecursiveTurning(node, tileId1, tileId2) ==
    IF node.type = "leaf"
    THEN IF node.tileId = tileId1 THEN [node EXCEPT !.tileId = tileId2]
         ELSE IF node.tileId = tileId2 THEN [node EXCEPT !.tileId = tileId1]
         ELSE node
    ELSE [node EXCEPT
             !.first = swapTilesRecursiveTurning(node.second, tileId1, tileId2),
             !.second = swapTilesRecursiveTurning(node.first, tileId1, tileId2)]

RECURSIVE swapTilesRecursive(_, _, _)
swapTilesRecursive(node, tileId1, tileId2) ==
    IF node.type = "leaf"
    THEN IF node.tileId = tileId1 THEN [node EXCEPT !.tileId = tileId2]
         ELSE IF node.tileId = tileId2 THEN [node EXCEPT !.tileId = tileId1]
         ELSE node
    ELSE [node EXCEPT !.first = swapTilesRecursive(node.first, tileId1, tileId2),
                      !.second = swapTilesRecursive(node.second, tileId1, tileId2)]

swapTiles(root, tileId1, tileId2) == swapTilesRecursive(root, tileId1, tileId2)

adjustSplitRatio(root, tileId, delta) ==
    LET parent == findParentSplit(root, tileId, Null)
    IN  IF parent = Null THEN root
        ELSE resizeSplit(root, parent.id, Clamp(parent.ratio + delta))

RECURSIVE findAncestorSplits(_, _, _)
findAncestorSplits(root, tileId, ancestors) ==
    IF root.type = "leaf"
    THEN IF root.tileId = tileId THEN ancestors ELSE << >>
    ELSE LET inFirst == findAncestorSplits(root.first, tileId,
                                           Append(ancestors, root))
         IN  IF Len(inFirst) > 0 THEN inFirst
             ELSE findAncestorSplits(root.second, tileId,
                                     Append(ancestors, root))

RECURSIVE containsTile(_, _)
containsTile(node, tileId) ==
    IF node.type = "leaf" THEN node.tileId = tileId
    ELSE containsTile(node.first, tileId) \/ containsTile(node.second, tileId)

whichChild(split, tileId) ==
    IF containsTile(split.first, tileId) THEN "first"
    ELSE IF containsTile(split.second, tileId) THEN "second"
    ELSE "null"

\* The ratio change, were it to change sign with the tile's position
adjustedDeltaByPosition(split, tileId, direction, delta) ==
    LET position == whichChild(split, tileId)
    IN  IF split.direction = "vertical"
        THEN IF position = "first"
             THEN (IF direction = "right" THEN delta ELSE -delta)
             ELSE (IF direction = "left" THEN delta ELSE -delta)
        ELSE IF position = "first"
             THEN (IF direction = "down" THEN delta ELSE -delta)
             ELSE (IF direction = "up" THEN delta ELSE -delta)

\* The ratio change, were it delta whatever the direction
adjustedDeltaAsGiven(split, tileId, direction, delta) == delta

\* The ratio change adjustSplitInDirection applies to `split` (lines 441-461)
adjustedDelta(split, tileId, direction, delta) ==
    LET position == whichChild(split, tileId)
    IN  IF split.direction = "vertical"
        THEN IF position = "first"
             THEN (IF direction = "right" THEN delta ELSE -delta)
             ELSE (IF direction = "left" THEN -delta ELSE delta)
        ELSE IF position = "first"
             THEN (IF direction = "down" THEN delta ELSE -delta)
             ELSE (IF direction = "up" THEN -delta ELSE delta)

\* adjustSplitInDirection, were the outermost matching ancestor adjusted
adjustSplitInDirectionOutermost(root, tileId, direction, delta) ==
    LET ancestors == findAncestorSplits(root, tileId, << >>)
        splitDirection == IF direction \in {"left", "right"}
                          THEN "vertical" ELSE "horizontal"
        matching == {i \in 1..Len(ancestors) :
                        ancestors[i].direction = splitDirection}
    IN  IF Len(ancestors) = 0 \/ matching = {} THEN root
        ELSE LET i == CHOOSE k \in matching : \A j \in matching : k <= j
                 split == ancestors[i]
             IN  resizeSplit(root, split.id,
                             Clamp(split.ratio
                                   + adjustedDelta(split, tileId, direction, delta)))

\* adjustSplitInDirection (419-469)
adjustSplitInDirection(root, tileId, direction, delta) ==
    LET ancestors == findAncestorSplits(root, tileId, << >>)
        splitDirection == IF direction \in {"left", "right"}
                          THEN "vertical" ELSE "horizontal"
        matching == {i \in 1..Len(ancestors) :
                        ancestors[i].direction = splitDirection}
    IN  IF Len(ancestors) = 0 \/ matching = {} THEN root
        ELSE LET i == CHOOSE k \in matching : \A j \in matching : j <= k
                 split == ancestors[i]
             IN  resizeSplit(root, split.id,
                             Clamp(split.ratio
                                   + adjustedDelta(split, tileId, direction, delta)))

\* findAdjacentTile, were a tile adjacent only across a gap
findAdjacentTileAcrossGap(tileBounds, currentTileId, direction) ==
    LET found == {i \in 1..Len(tileBounds) :
                     tileBounds[i].tileId = currentTileId}
    IN  IF found = {} THEN 0
        ELSE
        LET current == tileBounds[CHOOSE i \in found : \A j \in found : i <= j].bounds
            \* centres, primary distance and alignment, all doubled
            cx2(b) == 2 * b.x + b.width
            cy2(b) == 2 * b.y + b.height
            isInDirection(b) ==
                CASE direction = "left"  -> b.x + b.width < current.x
                  [] direction = "right" -> b.x > current.x + current.width
                  [] direction = "up"    -> b.y + b.height < current.y
                  [] direction = "down"  -> b.y > current.y + current.height
            primaryDistance2(b) ==
                CASE direction = "left"  -> cx2(current) - cx2(b)
                  [] direction = "right" -> cx2(b) - cx2(current)
                  [] direction = "up"    -> cy2(current) - cy2(b)
                  [] direction = "down"  -> cy2(b) - cy2(current)
            alignment2(b) ==
                IF direction \in {"left", "right"}
                THEN Abs(cy2(current) - cy2(b))
                ELSE Abs(cx2(current) - cx2(b))
            candidates == {i \in 1..Len(tileBounds) :
                              /\ tileBounds[i].tileId # currentTileId
                              /\ isInDirection(tileBounds[i].bounds)
                              /\ primaryDistance2(tileBounds[i].bounds) > 0}
            score2(i) == alignment2(tileBounds[i].bounds) * 2
                         + primaryDistance2(tileBounds[i].bounds)
        IN  IF candidates = {} THEN 0
            ELSE \* a stable sort by score: the first of the least
                 tileBounds[CHOOSE i \in candidates :
                                \A j \in candidates :
                                    \/ score2(i) < score2(j)
                                    \/ score2(i) = score2(j) /\ i <= j].tileId

\* findAdjacentTile, were the nearest tile taken whatever its alignment
findAdjacentTileByDistance(tileBounds, currentTileId, direction) ==
    LET found == {i \in 1..Len(tileBounds) :
                     tileBounds[i].tileId = currentTileId}
    IN  IF found = {} THEN 0
        ELSE
        LET current == tileBounds[CHOOSE i \in found : \A j \in found : i <= j].bounds
            \* centres, primary distance and alignment, all doubled
            cx2(b) == 2 * b.x + b.width
            cy2(b) == 2 * b.y + b.height
            isInDirection(b) ==
                CASE direction = "left"  -> b.x + b.width <= current.x + AdjacentTolerance
                  [] direction = "right" -> b.x >= current.x + current.width - AdjacentTolerance
                  [] direction = "up"    -> b.y + b.height <= current.y + AdjacentTolerance
                  [] direction = "down"  -> b.y >= current.y + current.height - AdjacentTolerance
            primaryDistance2(b) ==
                CASE direction = "left"  -> cx2(current) - cx2(b)
                  [] direction = "right" -> cx2(b) - cx2(current)
                  [] direction = "up"    -> cy2(current) - cy2(b)
                  [] direction = "down"  -> cy2(b) - cy2(current)
            alignment2(b) ==
                IF direction \in {"left", "right"}
                THEN Abs(cy2(current) - cy2(b))
                ELSE Abs(cx2(current) - cx2(b))
            candidates == {i \in 1..Len(tileBounds) :
                              /\ tileBounds[i].tileId # currentTileId
                              /\ isInDirection(tileBounds[i].bounds)
                              /\ primaryDistance2(tileBounds[i].bounds) > 0}
            score2(i) == primaryDistance2(tileBounds[i].bounds)
        IN  IF candidates = {} THEN 0
            ELSE \* a stable sort by score: the first of the least
                 tileBounds[CHOOSE i \in candidates :
                                \A j \in candidates :
                                    \/ score2(i) < score2(j)
                                    \/ score2(i) = score2(j) /\ i <= j].tileId

findAdjacentTile(tileBounds, currentTileId, direction) ==
    LET found == {i \in 1..Len(tileBounds) :
                     tileBounds[i].tileId = currentTileId}
    IN  IF found = {} THEN 0
        ELSE
        LET current == tileBounds[CHOOSE i \in found : \A j \in found : i <= j].bounds
            \* centres, primary distance and alignment, all doubled
            cx2(b) == 2 * b.x + b.width
            cy2(b) == 2 * b.y + b.height
            isInDirection(b) ==
                CASE direction = "left"  -> b.x + b.width <= current.x + AdjacentTolerance
                  [] direction = "right" -> b.x >= current.x + current.width - AdjacentTolerance
                  [] direction = "up"    -> b.y + b.height <= current.y + AdjacentTolerance
                  [] direction = "down"  -> b.y >= current.y + current.height - AdjacentTolerance
            primaryDistance2(b) ==
                CASE direction = "left"  -> cx2(current) - cx2(b)
                  [] direction = "right" -> cx2(b) - cx2(current)
                  [] direction = "up"    -> cy2(current) - cy2(b)
                  [] direction = "down"  -> cy2(b) - cy2(current)
            alignment2(b) ==
                IF direction \in {"left", "right"}
                THEN Abs(cy2(current) - cy2(b))
                ELSE Abs(cx2(current) - cx2(b))
            candidates == {i \in 1..Len(tileBounds) :
                              /\ tileBounds[i].tileId # currentTileId
                              /\ isInDirection(tileBounds[i].bounds)
                              /\ primaryDistance2(tileBounds[i].bounds) > 0}
            score2(i) == alignment2(tileBounds[i].bounds) * 2
                         + primaryDistance2(tileBounds[i].bounds)
        IN  IF candidates = {} THEN 0
            ELSE \* a stable sort by score: the first of the least
                 tileBounds[CHOOSE i \in candidates :
                                \A j \in candidates :
                                    \/ score2(i) < score2(j)
                                    \/ score2(i) = score2(j) /\ i <= j].tileId

-----------------------------------------------------------------------------
(* Reading a tree *)

RECURSIVE NodeIds(_)
NodeIds(node) ==
    IF node.type = "null" THEN {}
    ELSE IF node.type = "leaf" THEN {node.id, node.tileId}
    ELSE {node.id} \cup NodeIds(node.first) \cup NodeIds(node.second)

RECURSIVE SplitsOf(_)
SplitsOf(node) ==
    IF node.type = "split"
    THEN {node} \cup SplitsOf(node.first) \cup SplitsOf(node.second)
    ELSE {}

RECURSIVE LeafIds(_)
LeafIds(node) ==
    IF node.type = "leaf" THEN {node.id}
    ELSE LeafIds(node.first) \cup LeafIds(node.second)

SeqToSet(s) == {s[i] : i \in 1..Len(s)}
TileIdSet(node) == SeqToSet(getAllTileIds(node))

Directions == {"left", "right", "up", "down"}
SplitDirections == {"horizontal", "vertical"}

-----------------------------------------------------------------------------
(* Bounds of the model *)

\* Most splits the TileManager makes over a whole run (its tiles: one more)
MaxSplits == 1
MaxUuid == 2 + 3 * MaxSplits

\* Most splits under the structural commands alone (SpecStruct)
MaxStructSplits == 2
MaxStructUuid == 2 + 3 * MaxStructSplits

\* Most splitNode calls that find their target on a tree under test
MaxTreeSplits == 2
MaxTreeUuid == 2 + 3 * MaxTreeSplits

\* Most provider calls in flight when a user command or a resize is taken
MaxInFlight == 2

\* Views without a proxy the provider may hold when a command is taken
MaxLeaked == 0

\* Views away from the default page before another page navigates, and
\* muted proxies before another toggleMute is called
MaxNavigated == 1
MaxMuted == 1

\* Ratio arguments given to splitNode and resizeSplit, and delta arguments
\* given to adjustSplitRatio and adjustSplitInDirection (hundredths):
\* inside the clamp range, on its edges, outside it, negative, very large.
RatioArgs == {-30, 10, 50, 130}
RatioArgsInRange == {r \in RatioArgs : MinRatio <= r /\ r <= MaxRatio}
DeltaArgs == {-40, 1000}

\* Container rectangles given to calculateBounds: integer origin, positive
\* integer extent, odd and even, as small as one pixel.
ContainerArgs ==
    { Bounds(x, 0, w, h) : x \in {-3, 0}, w \in {1, 5, 800}, h \in {1, 548} }

\* Container sizes a window resize may produce: the default window and the
\* smallest one (constants.ts 16-19), less the toolbar.
ContainerSizes == { <<1280, 748>>, <<800, 548>> }

\* resizeInDirection's delta (default 0.05): 0.4 carries a ratio from 0.5
\* to the edge of the clamp range in one call.
ResizeDeltas == {40}

-----------------------------------------------------------------------------
(* State after construction and initialize(): bsp.ts 542-565 *)

NoResult == [op |-> "none"]

\* The url initialize and split give createTile (552, 1233)
DefaultUrl == "https://www.google.com"

\* createTileProxy(id, url) (tile-proxy.ts 58-71): the proxy object of the
\* view `id`
createTileProxy(id, url) ==
    [viewId |-> id, url |-> url, title |-> "New Tab", isMuted |-> FALSE]

\* The ManagedTileView createView makes (tile-view-manager.ts 687-697)
createdView(url) == [url |-> url, isMuted |-> FALSE]

Init ==
    /\ layout = createLeaf(1, 2)
    /\ tileProxies = {2}
    /\ proxyBounds = [t \in {2} |-> Bounds(0, 0, 1280, 748)]
    /\ sleepingTiles = {}
    /\ snapshots = [t \in {} |-> ""]
    /\ focusedTileId = 2
    /\ container = <<1280, 748>>
    /\ procs = EmptyBag
    /\ order = << >>
    /\ proxyOf = [t \in {2} |-> 1]
    /\ proxyObjects = [v \in {1} |-> createTileProxy(1, DefaultUrl)]
    /\ sleepingInfo = [t \in {} |-> Null]
    /\ views = [v \in {1} |-> createdView(DefaultUrl)]
    /\ nextUuid = 3
    /\ result = NoResult

managerVars == <<tileProxies, proxyBounds, sleepingTiles, snapshots, focusedTileId,
                 container, procs, order, proxyOf, proxyObjects, sleepingInfo,
                 views>>

-----------------------------------------------------------------------------
(* TileManager: bsp.ts 520-1771.                                           *)
(*                                                                         *)
(* A handler runs to its next await of the view provider without           *)
(* interruption; each await is an entry of `procs`.  The provider's       *)
(* handlers of create, destroy and setMuted are synchronous (part_007      *)
(* 35-62), so it answers those calls in the order they were made           *)
(* (`order`); capture is answered at any time.  A view changes at the      *)
(* provider in the step that answers the call.  The handlers call one      *)
(* another, so each is an operator from manager state to manager state (a  *)
(* record `st`), and an action applies one whole handler.                  *)
(*                                                                         *)
(* A view id is an identifier uuidv4() returned in the main process; a     *)
(* proxy object is named by the id of the view it was made for.  Here a    *)
(* new view takes the least positive integer that no view, proxy or call   *)
(* in flight holds.  0 is a view id that names no view (a tile id given    *)
(* to destroy in place of one).                                            *)

Cur == [layout |-> layout, tileProxies |-> tileProxies,
        proxyBounds |-> proxyBounds,
        sleepingTiles |-> sleepingTiles, snapshots |-> snapshots,
        focusedTileId |-> focusedTileId,
        container |-> container, procs |-> procs, order |-> order,
        proxyOf |-> proxyOf, proxyObjects |-> proxyObjects,
        sleepingInfo |-> sleepingInfo, views |-> views,
        nextUuid |-> nextUuid]

\* f(x), with x computed once
Of(f(_), x) == CHOOSE y \in {f(v) : v \in {x}} : TRUE

Range(f) == {f[x] : x \in DOMAIN f}
Put(f, k, v) == [x \in DOMAIN f \cup {k} |-> IF x = k THEN v ELSE f[x]]
Drop(f, k) == [x \in DOMAIN f \ {k} |-> f[x]]

\* The proxy objects something still refers to: the map, or the `proxy`
\* of a sleepTile call that awaits its capture (1573)
ProxiesInUse(st) ==
    Range(st.proxyOf)
        \cup {q.view : q \in {r \in DOMAIN st.procs : r.pc = "capture"}}

Becomes(next) ==
    \E st \in {next} :
        /\ layout' = st.layout
        /\ tileProxies' = st.tileProxies
        /\ proxyBounds' = st.proxyBounds
        /\ sleepingTiles' = st.sleepingTiles
        /\ snapshots' = st.snapshots
        /\ focusedTileId' = st.focusedTileId
        /\ container' = st.container
        /\ procs' = st.procs
        /\ order' = st.order
        /\ proxyOf' = st.proxyOf
        /\ proxyObjects' = [v \in DOMAIN st.proxyObjects \cap ProxiesInUse(st) |->
                                st.proxyObjects[v]]
        /\ sleepingInfo' = st.sleepingInfo
        /\ views' = st.views
        /\ nextUuid' = st.nextUuid
        /\ UNCHANGED result

\* An async call suspended at `pc`, awaiting the provider
\* `view` is the view id the call holds (the proxy of sleepTile, the view
\* to destroy or to mute), `tile` the sleeping record wakeTile holds
Proc(op, pc, tileId, newLayout, arg) ==
    [op |-> op, pc |-> pc, tileId |-> tileId, newLayout |-> newLayout,
     arg |-> arg, bounds |-> Null, view |-> 0, tile |-> Null]

\* The calls whose handlers in the main process are synchronous
InTurn(p) == p.pc \in {"create", "destroy", "setMuted"}

\* The sequence without the first of its entries equal to x
RECURSIVE WithoutFirst(_, _)
WithoutFirst(seq, x) ==
    IF seq = << >> THEN << >>
    ELSE IF Head(seq) = x THEN Tail(seq)
    ELSE <<Head(seq)>> \o WithoutFirst(Tail(seq), x)

Await(st, p) ==
    [st EXCEPT !.procs = @ (+) SetToBag({p}),
               !.order = IF InTurn(p) THEN Append(@, p) ELSE @]
Resume(st, p) ==
    [st EXCEPT !.procs = @ (-) SetToBag({p}),
               !.order = IF InTurn(p) THEN WithoutFirst(@, p) ELSE @]

\* The call p is in flight and the provider's answer to it is the next
Answered(p) ==
    /\ p \in DOMAIN procs
    /\ InTurn(p) => (order # << >> /\ Head(order) = p)

\* The id of the next view createView makes
FreshView(st) ==
    LET least(held) == CHOOSE v \in 1..(Cardinality(held) + 1) :
                           v \notin held /\ \A u \in 1..(v - 1) : u \in held
    IN  Of(least, DOMAIN st.views \cup DOMAIN st.proxyObjects
                      \cup Range(st.proxyOf)
                      \cup {q.view : q \in DOMAIN st.procs})

\* TileViewManager.createView, destroyView and setMuted
\* (tile-view-manager.ts 659-756)
createView(st, v, url) == [st EXCEPT !.views = Put(@, v, createdView(url))]
destroyView(st, v) == [st EXCEPT !.views = Drop(@, v)]
setMuted(st, v, muted) ==
    IF v \in DOMAIN st.views THEN [st EXCEPT !.views[v].isMuted = muted]
    ELSE st

\* getViewId(tileId) (734-737): 0 stands for the tile id, which names no
\* view
getViewId(st, tileId) ==
    IF tileId \in st.tileProxies THEN st.proxyOf[tileId] ELSE 0

\* tiles.create's answer
Response(success, tileId) == [success |-> success, tileId |-> tileId]

\* shouldSleep, were a tile to sleep only when too narrow and too low
shouldSleepWhenBoth(bounds) ==
    bounds.width < sleepThresholdWidth /\ bounds.height < sleepThresholdHeight

shouldSleep(bounds) ==
    bounds.width < sleepThresholdWidth \/ bounds.height < sleepThresholdHeight

\* sleepTile up to `await capture` (1572-1582)
sleepTile(st, tileId) ==
    IF tileId \notin st.tileProxies THEN st
    ELSE IF tileId = st.focusedTileId THEN st
    ELSE Await(st, [Proc("sleepTile", "capture", tileId, Null, 0)
                       EXCEPT !.view = st.proxyOf[tileId]])

\* The url, title and isMuted of a proxy or of a sleeping record
Metadata(r) == [url |-> r.url, title |-> r.title, isMuted |-> r.isMuted]

\* sleepingTiles.set(tileId, sleepingTile), the record made of `proxy` and
\* the snapshot (1591-1600), and sleepingTiles.delete(tileId)
SetSleeping(st, tileId, snapshot, proxy) ==
    [st EXCEPT !.sleepingTiles = @ \cup {tileId},
               !.snapshots = [t \in DOMAIN @ \cup {tileId} |->
                                 IF t = tileId THEN snapshot ELSE @[t]],
               !.sleepingInfo = Put(@, tileId, Metadata(proxy))]

DeleteSleeping(st, tileId) ==
    [st EXCEPT !.sleepingTiles = @ \ {tileId},
               !.snapshots = [t \in DOMAIN @ \ {tileId} |-> @[t]],
               !.sleepingInfo = [t \in DOMAIN @ \ {tileId} |-> @[t]]]

\* wakeTile up to createTile's `await create` (1614-1623, 703-704);
\* `bounds` is what the caller's `.then` holds (1123-1132), Null if the
\* caller has none
wakeTileThen(st, tileId, bounds) ==
    IF tileId \notin st.sleepingTiles THEN st
    ELSE Await(DeleteSleeping(st, tileId),
               [Proc("wakeTile", "create", tileId, Null, 0)
                    EXCEPT !.bounds = bounds,
                           !.tile = st.sleepingInfo[tileId]])

wakeTile(st, tileId) == wakeTileThen(st, tileId, Null)

\* tileProxies.set(tileId, proxy) and tileProxies.delete(tileId)
\* The new proxy's bounds are createTileProxy's (tile-proxy.ts 63).
SetProxy(st, tileId, proxy) ==
    [st EXCEPT !.tileProxies = @ \cup {tileId},
               !.proxyBounds = [t \in DOMAIN @ \cup {tileId} |->
                                   IF t = tileId THEN Bounds(0, 0, 0, 0)
                                   ELSE @[t]],
               !.proxyOf = Put(@, tileId, proxy.viewId),
               !.proxyObjects = Put(@, proxy.viewId, proxy)]

DeleteProxy(st, tileId) ==
    [st EXCEPT !.tileProxies = @ \ {tileId},
               !.proxyBounds = [t \in DOMAIN @ \ {tileId} |-> @[t]],
               !.proxyOf = [t \in DOMAIN @ \ {tileId} |-> @[t]]]

\* createTile, were a failed creation to take the tile out of the tree
createTileCuttingOnFailure(st, tileId, url, muted, response) ==
    IF ~response.success
    THEN [st EXCEPT !.layout = IF removeNode(@, tileId) = Null THEN @
                                ELSE removeNode(@, tileId)]
    ELSE SetProxy(st, tileId,
                  [createTileProxy(response.tileId, url)
                       EXCEPT !.isMuted = muted])

\* createTile after `await create`, up to `if (muted)` (706-720)
createTile(st, tileId, url, muted, response) ==
    IF ~response.success THEN st
    ELSE SetProxy(st, tileId,
                  [createTileProxy(response.tileId, url)
                       EXCEPT !.isMuted = muted])

\* The handler of create in the main process (part_007 35-51) answering
\* the call of p: a view of the next id, or a failure that leaves none
Created(st, url, success) ==
    IF success THEN createView(st, FreshView(st), url) ELSE st

ResponseTo(st, success) ==
    IF success THEN Response(TRUE, FreshView(st)) ELSE Response(FALSE, 0)

\* removeTile up to `await destroy(viewId)` (755-756), in the call p
removeTileThen(st, p) ==
    Of(LAMBDA s : Await(s, [p EXCEPT !.view = getViewId(s, p.tileId)]), st)

\* removeTile after `await destroy(viewId)` (756-766)
removeTile(st, tileId) == DeleteProxy(st, tileId)

\* The lines of wakeTile after `await createTile` (1624-1627)
wakeTileEnd(st, p) ==
    IF p.tileId \in st.tileProxies
    THEN [st EXCEPT !.proxyObjects[st.proxyOf[p.tileId]].title = p.tile.title]
    ELSE st

\* The `.then` of updateLayout's wakeTile call, were it left out
afterWakeNothing(st, p) == st

\* The `.then` of updateLayout's wakeTile call (1123-1132): the bounds of
\* the pass go to the tile's proxy and view, if it has one
afterWake(st, p) ==
    IF p.bounds # Null /\ p.tileId \in st.tileProxies
    THEN [st EXCEPT !.proxyBounds[p.tileId] = p.bounds]
    ELSE st

getTileBounds(st) ==
    calculateBounds(st.layout, Bounds(0, 0, st.container[1], st.container[2]))

\* The loop of updateLayout (1102-1138) from the i-th tile on
RECURSIVE updateLayoutFrom(_, _, _)
updateLayoutFrom(st, tileBounds, i) ==
    IF i > Len(tileBounds) THEN st
    ELSE LET tileId == tileBounds[i].tileId
             bounds == tileBounds[i].bounds
             next ==
                 IF tileId \in st.tileProxies
                 THEN LET st1 == [st EXCEPT !.proxyBounds[tileId] = bounds]
                      IN  IF shouldSleep(bounds) /\ tileId # st.focusedTileId
                          THEN sleepTile(st1, tileId)
                          ELSE st1
                 ELSE IF tileId \in st.sleepingTiles
                      THEN IF ~shouldSleep(bounds)
                           THEN wakeTileThen(st, tileId, bounds)
                           ELSE st
                      ELSE st
         IN  Of(LAMBDA s : updateLayoutFrom(s, tileBounds, i + 1), next)

updateLayout(st) ==
    Of(LAMBDA s :
           Of(LAMBDA tileBounds : updateLayoutFrom(s, tileBounds, 1),
              getTileBounds(s)),
       st)

\* focusTile, were it to wake a Sleeping tile only when the tile is large
\* enough to stay awake
focusTileWakingLargeOnly(st, tileId) ==
    LET tb == getTileBounds(st)
        large == \E i \in 1..Len(tb) :
                     tb[i].tileId = tileId /\ ~shouldSleep(tb[i].bounds)
        woken == IF tileId \in st.sleepingTiles /\ large
                 THEN wakeTile(st, tileId) ELSE st
    IN  IF tileId \notin woken.tileProxies THEN woken
        ELSE updateLayout([woken EXCEPT !.focusedTileId = tileId])

\* focusTile (1311-1333)
focusTile(st, tileId) ==
    LET woken(s) == IF tileId \in s.sleepingTiles
                    THEN wakeTile(s, tileId) ELSE s
        focused(s) == IF tileId \notin s.tileProxies THEN s
                      ELSE updateLayout([s EXCEPT !.focusedTileId = tileId])
    IN  Of(focused, Of(woken, st))

\* closeTile after the tile is removed (1292-1305)
closeTileFinish(st, targetId, newLayout) ==
    LET remaining == getAllTileIds(newLayout)
        st2(st1) == IF st1.focusedTileId = targetId
                    THEN IF Len(remaining) > 0
                         THEN focusTile(st1, remaining[1])
                         ELSE [st1 EXCEPT !.focusedTileId = 0]
                    ELSE st1
    IN  updateLayout(Of(st2, [st EXCEPT !.layout = newLayout]))

InFlight(st) == BagCardinality(st.procs)

\* The views of the provider that no proxy holds
Leaked(st) == DOMAIN st.views \ Range(st.proxyOf)

\* A command or event taken from the user or the window
Command(st) ==
    /\ InFlight(st) <= MaxInFlight
    /\ Cardinality(Leaked(Cur)) <= MaxLeaked
    /\ Becomes(st)

\* window 'resize' event (549): the container has its new size
WindowResize ==
    \E size \in ContainerSizes :
        Command(updateLayout([Cur EXCEPT !.container = size]))

\* split(direction) up to `await createTile` (1224-1233), while uuids last
SplitUpTo(maxUuid) ==
    \E direction \in SplitDirections :
        LET res == splitNode(layout, focusedTileId, direction, 50,
                             Uuids(nextUuid, 3))
        IN  /\ focusedTileId # 0
            /\ nextUuid + 2 <= maxUuid
            /\ res # Null
            /\ Command(Await([Cur EXCEPT !.layout = res.newRoot,
                                         !.nextUuid = @ + 3],
                             Proc("split", "create", res.newTileId, Null, 0)))

Split == SplitUpTo(MaxUuid)

\* openInNewTile(url, focusNew) up to `await createTile` (1247-1258)
OpenInNewTileUpTo(maxUuid) ==
    \E focusNew \in BOOLEAN :
        LET res == splitNode(layout, focusedTileId, "vertical", 50,
                             Uuids(nextUuid, 3))
        IN  /\ focusedTileId # 0
            /\ nextUuid + 2 <= maxUuid
            /\ res # Null
            /\ Command(Await([Cur EXCEPT !.layout = res.newRoot,
                                         !.nextUuid = @ + 3],
                             Proc("openInNewTile", "create", res.newTileId,
                                  Null,
                                  IF focusNew THEN res.newTileId
                                  ELSE focusedTileId)))

OpenInNewTile == OpenInNewTileUpTo(MaxUuid)

\* A call that has returned `returned`, or is "pending" at an await, and
\* the state it leaves
Returned(st, returned) == [st |-> st, returned |-> returned]

\* closeTile, were the only tile allowed to be closed
closeTileOfAnyTree(st, tileId) ==
    LET targetId == IF tileId # 0 THEN tileId ELSE st.focusedTileId
    IN  IF targetId = 0 THEN Returned(st, "false")
        ELSE LET newLayout == removeNode(st.layout, targetId)
             IN  IF newLayout = Null THEN Returned(st, "false")
                 ELSE IF targetId \in st.tileProxies
                 THEN Returned(removeTileThen(
                                   st, Proc("closeTile", "destroy", targetId,
                                            newLayout, 0)),
                               "pending")
                 ELSE Returned(closeTileFinish(
                                   DeleteSleeping(st, targetId),
                                   targetId, newLayout),
                               "true")

\* closeTile(tileId?) up to `await removeTile`, or to its end (1275-1306);
\* tileId 0 is the call without an argument
closeTile(st, tileId) ==
    LET targetId == IF tileId # 0 THEN tileId ELSE st.focusedTileId
    IN  IF targetId = 0 THEN Returned(st, "false")
        ELSE IF countTiles(st.layout) <= 1 THEN Returned(st, "false")
        ELSE LET newLayout == removeNode(st.layout, targetId)
             IN  IF newLayout = Null THEN Returned(st, "false")
                 ELSE IF targetId \in st.tileProxies
                 THEN Returned(removeTileThen(
                                   st, Proc("closeTile", "destroy", targetId,
                                            newLayout, 0)),
                               "pending")
                 ELSE Returned(closeTileFinish(
                                   DeleteSleeping(st, targetId),
                                   targetId, newLayout),
                               "true")

\* A closeTile call that does not return false
CloseTile ==
    \E tileId \in {0} \cup TileIdSet(layout) :
        LET call == closeTile(Cur, tileId)
        IN  /\ call.returned # "false"
            /\ Command(call.st)

\* focusTile(tileId), from the caller or from a click in a view (633-639)
FocusTile ==
    \E tileId \in TileIdSet(layout) :
        /\ tileId # focusedTileId
        /\ Command(focusTile(Cur, tileId))

\* The tile findAdjacentTile gives focusDirection and swapDirection, 0 for
\* none (1443-1444, 1459-1460)
adjacentIdOf(st, direction) ==
    findAdjacentTile(getTileBounds(st), st.focusedTileId, direction)

\* focusDirection(direction) and what it returns (1440-1451)
focusDirection(st, direction) ==
    IF st.focusedTileId = 0 THEN Returned(st, "false")
    ELSE IF adjacentIdOf(st, direction) # 0
         THEN Returned(focusTile(st, adjacentIdOf(st, direction)), "true")
         ELSE Returned(st, "false")

\* A focusDirection call that finds an adjacent tile
FocusDirection ==
    \E direction \in Directions :
        LET call == focusDirection(Cur, direction)
        IN  /\ call.returned = "true"
            /\ Command(call.st)

\* swapDirection, were it to move the focus to the adjacent tile
swapDirectionMovingFocus(st, direction) ==
    updateLayout([st EXCEPT
                     !.layout = swapTiles(@, st.focusedTileId,
                                          adjacentIdOf(st, direction)),
                     !.focusedTileId = adjacentIdOf(st, direction)])

\* swapDirection(direction) past its two early returns (1462-1469)
swapDirection(st, direction) ==
    updateLayout([st EXCEPT
                     !.layout = swapTiles(@, st.focusedTileId,
                                          adjacentIdOf(st, direction))])

\* swapDirection(direction) (1456-1470)
SwapDirection ==
    \E direction \in Directions :
        /\ focusedTileId # 0
        /\ adjacentIdOf(Cur, direction) # 0
        /\ Command(swapDirection(Cur, direction))

\* resizeInDirection(direction, delta) (1475-1481)
ResizeInDirection ==
    \E direction \in Directions, delta \in ResizeDeltas :
        /\ focusedTileId # 0
        /\ Command(updateLayout(
               [Cur EXCEPT !.layout = adjustSplitInDirection(
                                          @, focusedTileId, direction, delta)]))

\* sleepTile: capture answers or rejects; to `await destroy` (1583-1603, 755-756)
\* sleepTile after `await capture`, were a rejection to end the call
afterCaptureThrowing(st, p, resolved) ==
    IF resolved
    THEN removeTileThen(
             SetSleeping(Resume(st, p), p.tileId, "dataUrl",
                         st.proxyObjects[p.view]),
             Proc("sleepTile", "destroy", p.tileId, Null, 0))
    ELSE Resume(st, p)

\* sleepTile after `await capture`, resolved or rejected, up to
\* removeTile's `await destroy` (1580-1603, 754-756)
afterCapture(st, p, resolved) ==
    LET snapshot == IF resolved THEN "dataUrl" ELSE ""
    IN  removeTileThen(
            SetSleeping(Resume(st, p), p.tileId, snapshot,
                        st.proxyObjects[p.view]),
            Proc("sleepTile", "destroy", p.tileId, Null, 0))

CaptureReturnsTo(p, resolved) ==
    /\ p \in DOMAIN procs
    /\ p.op = "sleepTile" /\ p.pc = "capture"
    /\ Becomes(afterCapture(Cur, p, resolved))

CaptureReturns ==
    \E p \in DOMAIN procs, resolved \in BOOLEAN : CaptureReturnsTo(p, resolved)

\* sleepTile: destroy answers; to its end (757-766, 1606-1608)
SleepDestroyReturnsTo(p) ==
    /\ Answered(p)
    /\ p.op = "sleepTile" /\ p.pc = "destroy"
    /\ \E st \in {Resume(Cur, p)} :
           Becomes(removeTile(destroyView(st, p.view), p.tileId))

SleepDestroyReturns == \E p \in DOMAIN procs : SleepDestroyReturnsTo(p)

\* wakeTile: create answers; to its end (706-728, 1624-1629, 1123-1132)
WakeCreateReturnsTo(p, success) ==
    /\ Answered(p)
    /\ p.op = "wakeTile" /\ p.pc = "create"
    /\ \E st \in {Resume(Cur, p)} :
       \E response \in {ResponseTo(st, success)} :
       \E made \in {createTile(Created(st, p.tile.url, success), p.tileId,
                                p.tile.url, p.tile.isMuted, response)} :
           IF success /\ p.tile.isMuted
           THEN Becomes(Await(made, [p EXCEPT !.pc = "setMuted",
                                              !.view = response.tileId]))
           ELSE \E woken \in {wakeTileEnd(made, p)} :
                    Becomes(afterWake(woken, p))

WakeCreateReturns ==
    \E p \in DOMAIN procs, success \in BOOLEAN : WakeCreateReturnsTo(p, success)

\* split: create answers; to its end (706-728, 1236-1241)
SplitCreateReturnsTo(p, success) ==
    /\ Answered(p)
    /\ p.op = "split" /\ p.pc = "create"
    /\ \E st \in {Resume(Cur, p)} :
       \E response \in {ResponseTo(st, success)} :
       \E made \in {createTile(Created(st, DefaultUrl, success), p.tileId,
                                DefaultUrl, FALSE, response)} :
           Becomes(focusTile(updateLayout(made), p.tileId))

SplitCreateReturns ==
    \E p \in DOMAIN procs, success \in BOOLEAN :
        SplitCreateReturnsTo(p, success)

\* What the split call of p resolves to once create has answered (1241)
splitReturns(p, success) == p.tileId

\* The proxy's hasError, the error state a tile has: false in a new proxy
\* (tile-proxy.ts 66); createTile and its callers never set it
hasError(st, tileId) == FALSE

\* openInNewTile: create answers; to its end (706-728, 1261-1269)
OpenCreateReturnsTo(p, success) ==
    /\ Answered(p)
    /\ p.op = "openInNewTile" /\ p.pc = "create"
    /\ \E st \in {Resume(Cur, p)} :
       \E response \in {ResponseTo(st, success)} :
       \E made \in {createTile(Created(st, DefaultUrl, success), p.tileId,
                                DefaultUrl, FALSE, response)} :
           Becomes(focusTile(updateLayout(made), p.arg))

OpenCreateReturns ==
    \E p \in DOMAIN procs, success \in BOOLEAN :
        OpenCreateReturnsTo(p, success)

\* closeTile: destroy answers; to its end (757-766, 1292-1305)
CloseDestroyReturnsTo(p) ==
    /\ Answered(p)
    /\ p.op = "closeTile" /\ p.pc = "destroy"
    /\ \E st \in {Resume(Cur, p)} :
       \E removed \in {removeTile(destroyView(st, p.view), p.tileId)} :
           Becomes(closeTileFinish(removed, p.tileId, p.newLayout))

CloseDestroyReturns == \E p \in DOMAIN procs : CloseDestroyReturnsTo(p)

\* The keys of a map, in increasing order (a Map lists them in the order
\* they were first set, which the sets of this model do not keep)
RECURSIVE Keys(_)
Keys(S) ==
    IF S = {} THEN << >>
    ELSE LET least == CHOOSE x \in S : \A y \in S : x <= y
         IN  <<least>> \o Keys(S \ {least})

\* serialize(workspaceId, workspaceName) (1486-1518): the tiles list has a
\* record for every proxy, then one for every sleeping record
serialize(st) ==
    [layout |-> st.layout,
     tiles |-> [i \in 1..Cardinality(st.tileProxies) |->
                   [id |-> Keys(st.tileProxies)[i]]]
               \o [i \in 1..Cardinality(st.sleepingTiles) |->
                      [id |-> Keys(st.sleepingTiles)[i]]],
     focusedTileId |-> st.focusedTileId]

\* clearAllTiles (1553-1567), every destroy answered
clearAllTiles(st) ==
    [st EXCEPT !.tileProxies = {},
               !.proxyBounds = [t \in {} |-> Null],
               !.proxyOf = [t \in {} |-> 0],
               !.sleepingInfo = [t \in {} |-> Null],
               !.views = [v \in DOMAIN @ \ Range(st.proxyOf) |-> @[v]],
               !.sleepingTiles = {},
               !.snapshots = [t \in {} |-> ""],
               !.focusedTileId = 0]

\* restore's loop from its i-th tile on (1530-1537), every create answered
\* with success
RECURSIVE restoreTilesFrom(_, _, _)
restoreTilesFrom(st, tiles, i) ==
    IF i > Len(tiles) THEN st
    ELSE restoreTilesFrom(
             createTile(Created(st, DefaultUrl, TRUE), tiles[i].id,
                        DefaultUrl, FALSE, ResponseTo(st, TRUE)),
             tiles, i + 1)

\* restore(workspace) (1523-1548), alone and with every answer a success
restore(st, workspace) ==
    LET st1 == [clearAllTiles(st) EXCEPT !.layout = workspace.layout]
        st2 == restoreTilesFrom(st1, workspace.tiles, 1)
        st3 == IF workspace.focusedTileId # 0
                  /\ workspace.focusedTileId \in st2.tileProxies
               THEN [st2 EXCEPT !.focusedTileId = workspace.focusedTileId]
               ELSE [st2 EXCEPT
                        !.focusedTileId = getAllTileIds(st2.layout)[1]]
    IN  updateLayout(st3)

Next ==
    \/ WindowResize
    \/ Split
    \/ OpenInNewTile
    \/ CloseTile
    \/ FocusTile
    \/ FocusDirection
    \/ SwapDirection
    \/ ResizeInDirection
    \/ CaptureReturns
    \/ SleepDestroyReturns
    \/ WakeCreateReturns
    \/ SplitCreateReturns
    \/ OpenCreateReturns
    \/ CloseDestroyReturns

Spec == Init /\ [][Next]_vars

\* Tile ids the manager can come to hold: the first tile's, and the first
\* of the three uuids each split draws
TileUniverse == {2} \cup {3 * i : i \in 1..MaxSplits}

\* The provider answers the call whose turn it is
InTurnReturns ==
    \/ SleepDestroyReturns
    \/ WakeCreateReturns
    \/ SplitCreateReturns
    \/ OpenCreateReturns
    \/ CloseDestroyReturns

\* The provider answers every capture of a sleepTile call, and every call
\* it answers in turn
SpecSleep ==
    /\ Spec
    /\ \A t \in TileUniverse :
           WF_vars(\E p \in DOMAIN procs, resolved \in BOOLEAN :
                       p.tileId = t /\ CaptureReturnsTo(p, resolved))
    /\ WF_vars(InTurnReturns)

\* The TileManager when every view creation of a wakeTile call succeeds
WakeCreateSucceeds == \E p \in DOMAIN procs : WakeCreateReturnsTo(p, TRUE)

NextWake ==
    \/ WindowResize
    \/ Split
    \/ OpenInNewTile
    \/ CloseTile
    \/ FocusTile
    \/ FocusDirection
    \/ SwapDirection
    \/ ResizeInDirection
    \/ CaptureReturns
    \/ SleepDestroyReturns
    \/ WakeCreateSucceeds
    \/ SplitCreateReturns
    \/ OpenCreateReturns
    \/ CloseDestroyReturns

\* and the provider answers every call it answers in turn
SpecWake ==
    /\ Init /\ [][NextWake]_vars
    /\ WF_vars(\/ SleepDestroyReturns
               \/ WakeCreateSucceeds
               \/ SplitCreateReturns
               \/ OpenCreateReturns
               \/ CloseDestroyReturns)

\* The TileManager when the provider creates every view it is asked for
SplitCreateSucceeds == \E p \in DOMAIN procs : SplitCreateReturnsTo(p, TRUE)
OpenCreateSucceeds == \E p \in DOMAIN procs : OpenCreateReturnsTo(p, TRUE)

NextCreated ==
    \/ WindowResize
    \/ Split
    \/ OpenInNewTile
    \/ CloseTile
    \/ FocusTile
    \/ FocusDirection
    \/ SwapDirection
    \/ ResizeInDirection
    \/ CaptureReturns
    \/ SleepDestroyReturns
    \/ WakeCreateSucceeds
    \/ SplitCreateSucceeds
    \/ OpenCreateSucceeds
    \/ CloseDestroyReturns

SpecCreated == Init /\ [][NextCreated]_vars

\* What a view reports once its page has navigated (1019-1022, 1188-1195)
NavigationStates == {[url |-> "https://example.org/", title |-> "Example"]}

\* getTileIdByViewId(viewId) (742-749), 0 for null
getTileIdByViewId(st, viewId) ==
    IF \E t \in st.tileProxies : st.proxyOf[t] = viewId
    THEN CHOOSE t \in st.tileProxies : st.proxyOf[t] = viewId
    ELSE 0

\* The onNavigationState listener (573-589); a view id is no tile id
onNavigationState(st, data) ==
    IF getTileIdByViewId(st, data.tileId) = 0 THEN st
    ELSE [st EXCEPT !.proxyObjects[data.tileId].url = data.url,
                    !.proxyObjects[data.tileId].title = data.title]

\* The page of a view navigates ('did-navigate'), and the renderer hears it
Navigated ==
    \E v \in DOMAIN views, state \in NavigationStates :
        /\ Cardinality({u \in DOMAIN views : views[u].url # DefaultUrl})
               < MaxNavigated
        /\ views[v].url # state.url
        /\ Command(onNavigationState(
               [Cur EXCEPT !.views[v].url = state.url],
               [tileId |-> v, url |-> state.url, title |-> state.title]))

\* toggleMute(tileId?) up to `await setMuted` (881-890); arg is 1 for
\* muted
toggleMute(st, tileId) ==
    LET targetId == IF tileId # 0 THEN tileId ELSE st.focusedTileId
    IN  IF targetId = 0 THEN st
        ELSE IF targetId \notin st.tileProxies THEN st
        ELSE LET muted == ~st.proxyObjects[st.proxyOf[targetId]].isMuted
             IN  Await([st EXCEPT !.proxyObjects[st.proxyOf[targetId]].isMuted
                                      = muted],
                       [Proc("toggleMute", "setMuted", targetId, Null,
                             IF muted THEN 1 ELSE 0)
                            EXCEPT !.view = getViewId(st, targetId)])

ToggleMute ==
    \E tileId \in {0} \cup tileProxies :
        /\ Cardinality({v \in DOMAIN proxyObjects : proxyObjects[v].isMuted})
               < MaxMuted
        /\ Command(toggleMute(Cur, tileId))

\* toggleMute: setMuted answers (890-892)
ToggleMuteReturnsTo(p) ==
    /\ Answered(p)
    /\ p.op = "toggleMute" /\ p.pc = "setMuted"
    /\ Becomes(setMuted(Resume(Cur, p), p.view, p.arg = 1))

ToggleMuteReturns == \E p \in DOMAIN procs : ToggleMuteReturnsTo(p)

\* wakeTile: createTile's setMuted answers; to its end (722-728,
\* 1624-1629, 1123-1132)
WakeMuteReturnsTo(p) ==
    /\ Answered(p)
    /\ p.op = "wakeTile" /\ p.pc = "setMuted"
    /\ Becomes(afterWake(wakeTileEnd(setMuted(Resume(Cur, p), p.view, TRUE),
                                     p), p))

WakeMuteReturns == \E p \in DOMAIN procs : WakeMuteReturnsTo(p)

\* The TileManager while pages navigate and tiles are muted
NextMeta ==
    \/ Split
    \/ FocusTile
    \/ ResizeInDirection
    \/ Navigated
    \/ ToggleMute
    \/ CaptureReturns
    \/ SleepDestroyReturns
    \/ WakeCreateReturns
    \/ WakeMuteReturns
    \/ ToggleMuteReturns
    \/ SplitCreateReturns

SpecMeta == Init /\ [][NextMeta]_vars

\* The structural commands alone, and the answers they await
NextStruct ==
    \/ SplitUpTo(MaxStructUuid)
    \/ OpenInNewTileUpTo(MaxStructUuid)
    \/ CloseTile
    \/ SwapDirection
    \/ SplitCreateReturns
    \/ OpenCreateReturns
    \/ CloseDestroyReturns

SpecStruct == Init /\ [][NextStruct]_vars

-----------------------------------------------------------------------------
(* The layout-tree functions applied to a tree under test *)

\* Ids tried on a tree: those of its leaves or of its splits, and one that
\* is absent.  `result` keeps the call's name and its ratio or delta.
AbsentId == MaxTreeUuid + 1
LeafArgs(tree) == LeafIds(tree) \cup TileIdSet(tree) \cup {AbsentId}
SplitArgs(tree) == {sp.id : sp \in SplitsOf(tree)} \cup {AbsentId}

CallSplitNode(ratios) ==
    \E targetId \in LeafArgs(layout), direction \in SplitDirections,
       ratio \in ratios :
        LET res == splitNode(layout, targetId, direction, ratio,
                             Uuids(nextUuid, 3))
        IN  /\ nextUuid + 2 <= MaxTreeUuid
            /\ layout' = IF res = Null THEN layout ELSE res.newRoot
            /\ nextUuid' = IF res = Null THEN nextUuid ELSE nextUuid + 3
            /\ result' = [op |-> "splitNode", arg |-> ratio]
            /\ UNCHANGED managerVars

CallSplitNodeAnyRatio == CallSplitNode(RatioArgs)
CallSplitNodeInRange == CallSplitNode(RatioArgsInRange)

CallRemoveNode ==
    \E targetId \in LeafArgs(layout) :
        LET res == removeNode(layout, targetId)
        IN  /\ layout' = IF res = Null THEN layout ELSE res
            /\ result' = [op |-> "removeNode", arg |-> targetId]
            /\ UNCHANGED <<managerVars, nextUuid>>

CallResizeSplit ==
    \E splitId \in SplitArgs(layout), newRatio \in RatioArgs :
        /\ layout' = resizeSplit(layout, splitId, newRatio)
        /\ result' = [op |-> "resizeSplit", arg |-> newRatio]
        /\ UNCHANGED <<managerVars, nextUuid>>

CallSwapTiles ==
    \E tileId1 \in TileIdSet(layout), tileId2 \in TileIdSet(layout) :
        /\ layout' = swapTiles(layout, tileId1, tileId2)
        /\ result' = [op |-> "swapTiles", arg |-> tileId1]
        /\ UNCHANGED <<managerVars, nextUuid>>

CallAdjustSplitRatio ==
    \E tileId \in TileIdSet(layout), delta \in DeltaArgs :
        /\ layout' = adjustSplitRatio(layout, tileId, delta)
        /\ result' = [op |-> "adjustSplitRatio", arg |-> delta]
        /\ UNCHANGED <<managerVars, nextUuid>>

CallAdjustSplitInDirection ==
    \E tileId \in TileIdSet(layout), direction \in Directions,
       delta \in DeltaArgs :
        /\ layout' = adjustSplitInDirection(layout, tileId, direction, delta)
        /\ result' = [op |-> "adjustSplitInDirection", arg |-> delta]
        /\ UNCHANGED <<managerVars, nextUuid>>

CallCalculateBounds ==
    \E cb \in ContainerArgs :
        /\ result' = [op |-> "calculateBounds", arg |-> cb, tree |-> layout,
                      out |-> calculateBounds(layout, cb)]
        /\ UNCHANGED <<layout, managerVars, nextUuid>>

\* removeNode(splitNode(T, L, direction, ratio).newRoot, newTileId)
CallSplitThenRemove ==
    \E targetId \in LeafIds(layout) \cup TileIdSet(layout),
       direction \in SplitDirections, ratio \in RatioArgs :
        LET res == splitNode(layout, targetId, direction, ratio,
                             Uuids(nextUuid, 3))
        IN  /\ result' = [op |-> "splitThenRemove", arg |-> ratio,
                          tree |-> layout, split |-> res.newRoot,
                          out |-> removeNode(res.newRoot, res.newTileId)]
            /\ UNCHANGED <<layout, managerVars, nextUuid>>

\* Every tree operation, with any ratio argument
NextTree ==
    \/ CallSplitNodeAnyRatio
    \/ CallRemoveNode
    \/ CallResizeSplit
    \/ CallSwapTiles
    \/ CallAdjustSplitRatio
    \/ CallAdjustSplitInDirection

SpecTree == Init /\ [][NextTree]_vars

\* Trees whose ratios start in [0.1, 0.9], then resized, measured, and
\* split and cut back
NextRatio ==
    \/ CallSplitNodeInRange
    \/ CallResizeSplit
    \/ CallAdjustSplitInDirection
    \/ CallCalculateBounds
    \/ CallSplitThenRemove

SpecRatio == Init /\ [][NextRatio]_vars

\* Trees built by splitNode, removeNode and swapTiles alone
NextShape ==
    \/ CallSplitNodeInRange
    \/ CallRemoveNode
    \/ CallSwapTiles

SpecShape == Init /\ [][NextShape]_vars

-----------------------------------------------------------------------------
(* Properties of the layout-tree functions *)

Sum(f, S) ==
    LET RECURSIVE SumOver(_)
        SumOver(T) == IF T = {} THEN 0
                      ELSE LET t == CHOOSE u \in T : TRUE
                           IN  f[t] + SumOver(T \ {t})
    IN  SumOver(S)

Right(b) == b.x + b.width
Bottom(b) == b.y + b.height
Area(b) == b.width * b.height

Inside(b, cb) ==
    /\ b.width >= 0 /\ b.height >= 0
    /\ cb.x <= b.x /\ Right(b) <= Right(cb)
    /\ cb.y <= b.y /\ Bottom(b) <= Bottom(cb)

\* Two rectangles share a point of positive area
Overlap(a, b) ==
    /\ Max(a.x, b.x) < Min(Right(a), Right(b))
    /\ Max(a.y, b.y) < Min(Bottom(a), Bottom(b))

\* The smallest rectangle around the rectangles `out` gives the tiles of
\* `node`
BoxOf(node, out) ==
    LET I == {i \in 1..Len(out) : out[i].tileId \in TileIdSet(node)}
        x0 == CHOOSE v \in {out[i].bounds.x : i \in I} :
                  \A i \in I : v <= out[i].bounds.x
        y0 == CHOOSE v \in {out[i].bounds.y : i \in I} :
                  \A i \in I : v <= out[i].bounds.y
        x1 == CHOOSE v \in {Right(out[i].bounds) : i \in I} :
                  \A i \in I : v >= Right(out[i].bounds)
        y1 == CHOOSE v \in {Bottom(out[i].bounds) : i \in I} :
                  \A i \in I : v >= Bottom(out[i].bounds)
    IN  Bounds(x0, y0, x1 - x0, y1 - y0)

\* d is the integer nearest origin + extent * ratio, a half rounded up
IsRounded(d, origin, extent, ratio) ==
    LET v2 == 2 * (origin * RatioScale + extent * ratio)
    IN  (2 * d - 1) * RatioScale <= v2 /\ v2 < (2 * d + 1) * RatioScale

\* At the split sp the first child spans [origin, divider) and the second
\* [divider, origin + extent), the other axis being that of the split
DividedAt(sp, out) ==
    LET b == BoxOf(sp, out)
        f == BoxOf(sp.first, out)
        g == BoxOf(sp.second, out)
    IN  IF sp.direction = "vertical"
        THEN /\ f.x = b.x /\ Right(f) = g.x /\ Right(g) = Right(b)
             /\ IsRounded(g.x, b.x, b.width, sp.ratio)
             /\ f.y = b.y /\ g.y = b.y
             /\ f.height = b.height /\ g.height = b.height
        ELSE /\ f.y = b.y /\ Bottom(f) = g.y /\ Bottom(g) = Bottom(b)
             /\ IsRounded(g.y, b.y, b.height, sp.ratio)
             /\ f.x = b.x /\ g.x = b.x
             /\ f.width = b.width /\ g.width = b.width

TilesExactly(tree, cb, out) ==
    /\ Len(out) = countTiles(tree)
    /\ \A i \in 1..Len(out) : Inside(out[i].bounds, cb)
    /\ \A i, j \in 1..Len(out) :
           i < j => ~Overlap(out[i].bounds, out[j].bounds)
    /\ Sum([i \in 1..Len(out) |-> Area(out[i].bounds)], 1..Len(out))
           = Area(cb)
    /\ BoxOf(tree, out) = cb
    /\ \A sp \in SplitsOf(tree) : DividedAt(sp, out)

\* C6: for a tree whose ratios lie in [0.1, 0.9] and a container with
\* integer origin and positive integer extent, the rectangles of
\* calculateBounds tile the container exactly: each has non-negative width
\* and height and lies inside it, no two overlap, their areas add up to the
\* container's, and at each split the divider is
\* round(origin + extent * ratio), the first child spanning
\* [origin, divider) and the second [divider, origin + extent).
CalculateBoundsTiles ==
    result.op = "calculateBounds"
        => TilesExactly(result.tree, result.arg, result.out)

\* Three tiles in a container at a negative origin, five pixels wide, one
\* of them left with no width at all
CalculateBoundsTilesWitness ==
    /\ result.op = "calculateBounds"
    /\ countTiles(result.tree) = 3
    /\ result.arg.x < 0 /\ result.arg.width = 5
    /\ \E i \in 1..Len(result.out) : result.out[i].bounds.width = 0
    /\ \E sp \in SplitsOf(result.tree) : sp.ratio = MaxRatio

\* C7: removeNode(splitNode(T, L, direction, ratio).newRoot, newTileId) is
\* structurally equal to T, for any leaf L of T, direction and ratio.
SplitThenRemoveIsIdentity ==
    result.op = "splitThenRemove" => result.out = result.tree

\* A leaf two splits deep was split with a ratio outside the clamp range
SplitThenRemoveWitness ==
    /\ result.op = "splitThenRemove"
    /\ countTiles(result.tree) = 3
    /\ countTiles(result.split) = 4
    /\ result.arg > MaxRatio
    /\ result.tree.type = "split" /\ result.split.first = result.tree.first

\* C8: after any sequence of splitNode (with any ratio argument),
\* removeNode, resizeSplit, swapTiles, adjustSplitRatio and
\* adjustSplitInDirection from a single leaf, every split's ratio lies in
\* [0.1, 0.9].
RatioNeverOutside ==
    \A sp \in SplitsOf(layout) : MinRatio <= sp.ratio /\ sp.ratio <= MaxRatio

\* C9: from a tree whose ratios lie in [0.1, 0.9], after any sequence of
\* resizeSplit and adjustSplitInDirection calls with any newRatio and
\* delta, every split's ratio still lies in [0.1, 0.9].
ResizeKeepsRatios ==
    result.op \in {"resizeSplit", "adjustSplitInDirection"}
        => \A sp \in SplitsOf(layout) : sp.ratio \in MinRatio..MaxRatio

\* resizeSplit was given 1.3 and adjustSplitInDirection a delta of -0.4 or
\* 10: a split stands at each edge of the range
ResizeKeepsRatiosWitness ==
    /\ result.op \in {"resizeSplit", "adjustSplitInDirection"}
    /\ result.arg \notin MinRatio..MaxRatio
    /\ \E sp \in SplitsOf(layout) : sp.ratio = MaxRatio
    /\ \E sp \in SplitsOf(layout) : sp.ratio = MinRatio

-----------------------------------------------------------------------------
(* Properties of the TileManager *)

\* The sleepTile and wakeTile calls in flight for the tile t
Transitions(t) ==
    {p \in DOMAIN procs : p.op \in {"sleepTile", "wakeTile"} /\ p.tileId = t}

\* The calls in flight in `bag` of the operation, await and tile of q,
\* holding the bounds q holds
CallsOf(q, bag) ==
    LET same == {p \in DOMAIN bag :
                    /\ p.op = q.op /\ p.pc = q.pc /\ p.tileId = q.tileId
                    /\ p.bounds = q.bounds}
    IN  Sum([p \in same |-> CopiesIn(p, bag)], same)

TransitionsInFlight(t) ==
    Sum([p \in Transitions(t) |-> CopiesIn(p, procs)], Transitions(t))

KnownTiles == TileIdSet(layout) \cup tileProxies \cup sleepingTiles

\* C1: at most one lifecycle transition (sleep or wake) is in flight per
\* tile id at any time; an updateLayout pass that runs while a tile's
\* transition awaits the provider starts no second one for that tile.
OneTransitionPerTile ==
    \A t \in KnownTiles : TransitionsInFlight(t) <= 1

\* The sleepTile call of tile t that awaits destroy, and the step in which
\* it gets its answer and ends
SleepAtDestroy(t) == Proc("sleepTile", "destroy", t, Null, 0)
SleepCompletes(t) ==
    CallsOf(SleepAtDestroy(t), procs') < CallsOf(SleepAtDestroy(t), procs)

WakeInFlight(t) ==
    \E p \in DOMAIN procs : p.op = "wakeTile" /\ p.tileId = t

\* The bounds updateLayout computes for the tile t of the layout
BoundsOfTile(t) ==
    LET tb == getTileBounds(Cur)
    IN  tb[CHOOSE i \in 1..Len(tb) : tb[i].tileId = t].bounds

\* A wake of t is due: t has the focus, or is large enough to be Live
WakeDue(t) == focusedTileId = t \/ ~shouldSleep(BoundsOfTile(t))

\* C2: a wake request for a tile (focusTile on it, or an updateLayout pass
\* that finds it large enough) that arrives while the tile's sleep is in
\* flight is not dropped: when the sleep completes the wake is applied, so
\* the tile is Live or its wake is under way.
WakeFollowsSleep ==
    [][\A t \in TileIdSet(layout) :
           SleepCompletes(t) /\ WakeDue(t)
               => t \in tileProxies' \/ WakeInFlight(t)']_vars

\* C3: no sleep transition completes for a tile that is the focused tile
\* at that moment, whatever its size.
FocusedNeverSlept ==
    [][\A t \in KnownTiles : SleepCompletes(t) => focusedTileId # t]_vars

\* C4: focusedTileId is non-null and names a tile of the layout tree in
\* every state, also after closeTile removed the focused tile while the
\* first remaining tile was Sleeping.
FocusInTree ==
    focusedTileId # 0 /\ focusedTileId \in TileIdSet(layout)

\* The focused tile was closed while the one tile left was Sleeping: its
\* wake is under way and focusedTileId still names the closed tile
FocusLeftOnClosedTile ==
    /\ countTiles(layout) = 1
    /\ focusedTileId # 0 /\ focusedTileId \notin TileIdSet(layout)
    /\ focusedTileId \notin tileProxies
    /\ WakeInFlight(getAllTileIds(layout)[1])
    /\ InFlight(Cur) = 1

\* C5: whenever nothing is in flight, every tile id of the layout tree has
\* its record in exactly one of tileProxies and sleepingTiles, also after
\* a view creation failed.
ExactlyOneRecord ==
    procs = EmptyBag =>
        \A t \in TileIdSet(layout) :
            (t \in tileProxies) # (t \in sleepingTiles)

\* C10: no two leaves of the layout tree hold the same tileId, after any
\* sequence of split, openInNewTile, closeTile and swapDirection.
TileIdsUnique ==
    LET ids == getAllTileIds(layout)
    IN  \A i, j \in 1..Len(ids) : i # j => ids[i] # ids[j]

\* Three tiles, each with its view, nothing in flight, and the first tile
\* swapped into the last leaf
TileIdsUniqueWitness ==
    /\ countTiles(layout) = 3
    /\ procs = EmptyBag
    /\ getAllTileIds(layout)[3] = 2
    /\ tileProxies = TileIdSet(layout)

\* Tile ids closeTile may be given: none (0), every tile the manager
\* knows, and one it does not know
AbsentTile == nextUuid
CloseTileArgs == {0, AbsentTile} \cup KnownTiles

\* C11: the layout tree always has at least one leaf; closeTile on a tree
\* with a single tile returns false and changes nothing (layout, tile
\* records, focus, calls in flight).
NeverEmpty ==
    /\ layout # Null
    /\ countTiles(layout) >= 1
    /\ countTiles(layout) = 1 =>
           \A tileId \in CloseTileArgs :
               closeTile(Cur, tileId) = Returned(Cur, "false")

\* A tile was closed and one tile is left: it is Live and focused, nothing
\* is in flight, and closeTile() of it returns false
NeverEmptyWitness ==
    /\ countTiles(layout) = 1
    /\ nextUuid > 3
    /\ procs = EmptyBag
    /\ focusedTileId \in TileIdSet(layout) \cap tileProxies
    /\ closeTile(Cur, 0).returned = "false"

SleepAtCapture(t) == Proc("sleepTile", "capture", t, Null, 0)
Sleeping(t) == t \in sleepingTiles /\ t \notin tileProxies
Live(t) == t \in tileProxies /\ t \notin sleepingTiles

\* The tile t of the layout is below a sleep threshold
BelowThreshold(t) ==
    BoundsOfTile(t).width < 200 \/ BoundsOfTile(t).height < 150

\* An updateLayout pass made now starts a sleep of every Live tile below
\* a threshold, except the focused one, which it leaves alone
PassStartsSleep ==
    LET st == updateLayout(Cur)
    IN  \A t \in TileIdSet(layout) :
            Live(t) /\ BelowThreshold(t) =>
                IF t # focusedTileId
                THEN CallsOf(SleepAtCapture(t), st.procs)
                         = CallsOf(SleepAtCapture(t), procs) + 1
                ELSE /\ CallsOf(SleepAtCapture(t), st.procs)
                            = CallsOf(SleepAtCapture(t), procs)
                     /\ t \in st.tileProxies /\ t \notin st.sleepingTiles

\* C12: an updateLayout pass in which a Live, non-focused tile is narrower
\* than 200 or lower than 150 starts its sleep, and the tile eventually is
\* Sleeping unless the focus moves to it; the pass does not put the focused
\* tile to sleep, whatever its size.
SleepBelowThreshold ==
    /\ []PassStartsSleep
    /\ \A t \in TileUniverse :
           (CallsOf(SleepAtCapture(t), procs) > 0)
               ~> (Sleeping(t) \/ focusedTileId = t)

\* A tile of the layout 80 px wide is Sleeping, another has the focus, and
\* nothing is in flight
SleepBelowThresholdWitness ==
    /\ procs = EmptyBag
    /\ \E t \in TileIdSet(layout) :
           /\ Sleeping(t) /\ t # focusedTileId
           /\ BoundsOfTile(t).width = 80 /\ BoundsOfTile(t).height >= 150
    /\ focusedTileId \in TileIdSet(layout) \cap tileProxies

WakeAtCreate(t) ==
    [Proc("wakeTile", "create", t, Null, 0)
         EXCEPT !.tile = IF t \in DOMAIN sleepingInfo THEN sleepingInfo[t]
                         ELSE Null]

\* focusTile(t) called now on a Sleeping tile t starts one wake of t
FocusStartsWake ==
    \A t \in sleepingTiles :
        Sleeping(t) =>
            LET st == focusTile(Cur, t)
            IN  /\ st.procs = procs (+) SetToBag({WakeAtCreate(t)})
                /\ t \notin st.sleepingTiles

\* The tile t has a proxy, and so a view
HasView(t) == t \in tileProxies

FocusSetOnSleeping ==
    \A t \in TileIdSet(layout) :
        Sleeping(t) => focusTile(Cur, t).focusedTileId = t

\* The wake of t that an updateLayout pass made now would start: it holds
\* the rectangle the pass computes for t
WakeOfPass(t) == [WakeAtCreate(t) EXCEPT !.bounds = BoundsOfTile(t)]

\* An updateLayout pass made now starts one wake of every Sleeping tile of
\* the layout that is at least 200 wide and 150 high, holding its rectangle
PassStartsWake ==
    \A t \in TileIdSet(layout) :
        (Sleeping(t) /\ BoundsOfTile(t).width >= 200
                     /\ BoundsOfTile(t).height >= 150) =>
            LET st == updateLayout(Cur)
            IN  /\ CallsOf(WakeOfPass(t), st.procs)
                       = CallsOf(WakeOfPass(t), procs) + 1
                /\ t \notin st.sleepingTiles

\* The step that ends a wake started by a pass leaves the tile with a view
\* whose bounds are the rectangle of that pass
PassBoundsApplied ==
    \A p \in DOMAIN procs :
        (p.op = "wakeTile" /\ p.bounds # Null
            /\ CopiesIn(p, procs') < CopiesIn(p, procs)) =>
            /\ p.tileId \in tileProxies'
            /\ proxyBounds'[p.tileId] = p.bounds

-----------------------------------------------------------------------------
(* Properties of splitNode, removeNode and swapTiles on every tree built *)

RECURSIVE LeavesOf(_)
LeavesOf(node) ==
    IF node.type = "leaf" THEN {node}
    ELSE LeavesOf(node.first) \cup LeavesOf(node.second)

\* The leaves of the tree that targetId names, by id or by tileId
LeavesNamed(tree, targetId) ==
    {l \in LeavesOf(tree) : l.id = targetId \/ l.tileId = targetId}

\* The tree with the node of the given id replaced, all else as it was
RECURSIVE ReplaceNode(_, _, _)
ReplaceNode(tree, id, by) ==
    IF tree.id = id THEN by
    ELSE IF tree.type = "leaf" THEN tree
    ELSE [tree EXCEPT !.first = ReplaceNode(tree.first, id, by),
                      !.second = ReplaceNode(tree.second, id, by)]

\* How often the tile id occurs in the tree
Occurrences(tree, tileId) ==
    Cardinality({i \in 1..countTiles(tree) : getAllTileIds(tree)[i] = tileId})

\* Ids splitNode and removeNode may be given for the tree: every id in it,
\* of a leaf, a tile or a split, and one that is not in it
TargetArgs(tree) == NodeIds(tree) \cup {AbsentId}

\* C16: splitNode(root, targetId, direction, ratio) returns null exactly when
\* no leaf of root has id or tileId targetId; otherwise newRoot is root with
\* that one leaf replaced by a split of the given direction and ratio whose
\* first child is the leaf and whose second is a new leaf holding newTileId,
\* which occurs nowhere else; every other node is unchanged and the tile
\* count grows by one.
SplitNodeSplitsOneLeaf ==
    \A targetId \in TargetArgs(layout), direction \in SplitDirections,
       ratio \in RatioArgs :
        LET u == Uuids(nextUuid, 3)
            res == splitNode(layout, targetId, direction, ratio, u)
            hits == LeavesNamed(layout, targetId)
        IN  IF hits = {} THEN res = Null
            ELSE /\ res # Null
                 /\ Cardinality(hits) = 1
                 /\ \E l \in hits, a, b \in SeqToSet(u) :
                        res.newRoot = ReplaceNode(layout, l.id,
                            [type |-> "split", id |-> a,
                             direction |-> direction, ratio |-> ratio,
                             first |-> l,
                             second |-> [type |-> "leaf", id |-> b,
                                         tileId |-> res.newTileId]])
                 /\ Occurrences(res.newRoot, res.newTileId) = 1
                 /\ countTiles(res.newRoot) = countTiles(layout) + 1

\* splitNode has split the second leaf of a two-leaf tree, named by its
\* leaf id, and the tree has a split id that names no leaf
SplitNodeSplitsOneLeafWitness ==
    /\ result.op = "splitNode"
    /\ layout.type = "split"
    /\ layout.first.type = "leaf"
    /\ layout.second.type = "split"
    /\ layout.second.second.tileId = nextUuid - 3
    /\ LeavesNamed(layout, layout.id) = {}

\* C17: removeNode(root, targetId) returns the empty-tree signal (null) if
\* and only if root itself is a leaf whose id or tileId is targetId; when
\* targetId matches no leaf the tree comes back unchanged, so null is never
\* returned for an absent target or for a tree of more than one leaf.
RemoveNodeEmptySignal ==
    \A targetId \in TargetArgs(layout) :
        LET res == removeNode(layout, targetId)
        IN  /\ res = Null <=>
                   /\ layout.type = "leaf"
                   /\ (layout.id = targetId \/ layout.tileId = targetId)
            /\ LeavesNamed(layout, targetId) = {} => res = layout

\* removeNode was called with the tile id of a tree that is one leaf, left
\* over from a larger tree
RemoveNodeEmptySignalWitness ==
    /\ result.op = "removeNode"
    /\ layout.type = "leaf"
    /\ result.arg = layout.tileId
    /\ nextUuid > 3

\* The split of the tree one of whose children is the node
ParentOf(tree, node) ==
    CHOOSE sp \in SplitsOf(tree) : sp.first = node \/ sp.second = node

SiblingOf(tree, node) ==
    IF ParentOf(tree, node).first = node THEN ParentOf(tree, node).second
    ELSE ParentOf(tree, node).first

\* The sequence without its entries equal to x
Without(seq, x) ==
    LET Keep(y) == y # x
    IN  SelectSeq(seq, Keep)

\* C18: for a target leaf at any depth whose parent is a split, removeNode
\* returns the tree in which that parent is replaced by the target's
\* sibling subtree, itself unchanged, every other node unchanged;
\* getAllTileIds of the result is the original sequence without the target,
\* and when the parent is the root the sibling is the new root.
RemoveNodePromotesSibling ==
    \A targetId \in TargetArgs(layout) :
        \A l \in LeavesNamed(layout, targetId) :
            layout.type = "split" =>
                LET res == removeNode(layout, targetId)
                    parent == ParentOf(layout, l)
                    sibling == SiblingOf(layout, l)
                IN  /\ res = ReplaceNode(layout, parent.id, sibling)
                    /\ getAllTileIds(res)
                           = Without(getAllTileIds(layout), l.tileId)
                    /\ parent = layout => res = sibling

\* removeNode has cut a leaf two splits deep out of a three-leaf tree: the
\* root split is the older one and the younger split is gone
RemoveNodePromotesSiblingWitness ==
    /\ result.op = "removeNode"
    /\ result.arg \notin NodeIds(layout)
    /\ result.arg # AbsentId
    /\ nextUuid = MaxTreeUuid + 1
    /\ SplitsOf(layout) = {layout}
    /\ layout.id < nextUuid - 3

\* The tree with every tile id taken out: its shape, the ids of its splits
\* and leaves, its directions and ratios
RECURSIVE Frame(_)
Frame(tree) ==
    IF tree.type = "leaf" THEN [tree EXCEPT !.tileId = 0]
    ELSE [tree EXCEPT !.first = Frame(tree.first),
                      !.second = Frame(tree.second)]

\* The tile id that is found where x was once a and b have changed places
Exchanged(x, a, b) == IF x = a THEN b ELSE IF x = b THEN a ELSE x

\* The leaf of the tree that holds the tile
LeafOf(tree, tileId) == CHOOSE l \in LeavesOf(tree) : l.tileId = tileId

\* The rectangle calculateBounds' output gives the tile
RectOf(out, tileId) ==
    out[CHOOSE i \in 1..Len(out) : out[i].tileId = tileId].bounds

\* Containers the swapped trees are measured in: 800x600 among them
SwapContainers == {Bounds(0, 0, 800, 600), Bounds(-3, 0, 5, 1)}

\* C19: swapTiles(root, a, b) with a and b both in the tree returns a tree
\* of the same shape, split ids, directions, ratios and leaf ids in which
\* the leaf that held a holds b and the leaf that held b holds a; so
\* calculateBounds on the same container gives a the rectangle b had, b the
\* rectangle a had, and every other tile its old rectangle.
SwapTilesExchanges ==
    \A a, b \in TileIdSet(layout) :
        LET res == swapTiles(layout, a, b)
        IN  /\ Frame(res) = Frame(layout)
            /\ LeafOf(res, b).id = LeafOf(layout, a).id
            /\ LeafOf(res, a).id = LeafOf(layout, b).id
            /\ \A t \in TileIdSet(layout) \ {a, b} :
                   LeafOf(res, t) = LeafOf(layout, t)
            /\ \A cb \in SwapContainers :
                   LET old == calculateBounds(layout, cb)
                       out == calculateBounds(res, cb)
                   IN  \A t \in TileIdSet(layout) :
                           RectOf(out, t) = RectOf(old, Exchanged(t, a, b))

\* swapTiles has exchanged the two tiles of a vertical split at 0.5: in
\* 800x600 the older tile now has the rectangle {400, 0, 400, 600}
SwapTilesExchangesWitness ==
    /\ result.op = "swapTiles"
    /\ layout.type = "split" /\ layout.direction = "vertical"
    /\ layout.ratio = 50
    /\ layout.first.type = "leaf" /\ layout.second.type = "leaf"
    /\ layout.second.tileId < layout.first.tileId
    /\ layout.second.id > layout.first.id
    /\ RectOf(calculateBounds(layout, Bounds(0, 0, 800, 600)),
              layout.second.tileId) = Bounds(400, 0, 400, 600)

\* C20: swapDirection(direction) that finds an adjacent tile leaves
\* focusedTileId unchanged, while the focused tile's id moves to the leaf
\* the adjacent tile occupied and the adjacent tile's id to the focused
\* tile's former leaf.
SwapDirectionKeepsFocus ==
    \A direction \in Directions :
        LET adjacentId == adjacentIdOf(Cur, direction)
            st == swapDirection(Cur, direction)
        IN  (focusedTileId # 0 /\ adjacentId # 0) =>
                /\ st.focusedTileId = focusedTileId
                /\ LeafOf(st.layout, focusedTileId).id
                       = LeafOf(layout, adjacentId).id
                /\ LeafOf(st.layout, adjacentId).id
                       = LeafOf(layout, focusedTileId).id

\* The focused tile is the younger of two and sits in the older leaf, where
\* a swapDirection has taken it
SwapDirectionKeepsFocusWitness ==
    /\ layout.type = "split"
    /\ layout.first.type = "leaf" /\ layout.second.type = "leaf"
    /\ layout.first.tileId = focusedTileId
    /\ layout.second.tileId < layout.first.tileId
    /\ layout.second.id > layout.first.id

-----------------------------------------------------------------------------
(* What focusDirection returns *)

\* C21: focusDirection(direction) returns true if and only if, when it
\* returns, focusedTileId is the tile findAdjacentTile found from the
\* previously focused tile, Live or Sleeping; and false if and only if no
\* adjacent tile exists and focusedTileId is unchanged.
FocusDirectionReturnsMove ==
    \A direction \in Directions :
        LET call == focusDirection(Cur, direction)
            found == focusedTileId # 0 /\ adjacentIdOf(Cur, direction) # 0
            known == Live(adjacentIdOf(Cur, direction))
                         \/ Sleeping(adjacentIdOf(Cur, direction))
        IN  (found => known) =>
                /\ call.returned = "true" <=>
                       /\ found
                       /\ call.st.focusedTileId = adjacentIdOf(Cur, direction)
                /\ call.returned = "false" <=>
                       /\ ~found
                       /\ call.st.focusedTileId = focusedTileId

\* focusDirection has moved the focus to the Live tile next to the focused
\* one: the older of two tiles has the focus again
FocusDirectionReturnsMoveWitness ==
    /\ countTiles(layout) = 2
    /\ tileProxies = TileIdSet(layout)
    /\ sleepingTiles = {}
    /\ procs = EmptyBag
    /\ focusedTileId = getAllTileIds(layout)[1]
    /\ focusedTileId < getAllTileIds(layout)[2]
    /\ nextUuid > 3

-----------------------------------------------------------------------------
(* Failures of the view provider *)

\* The step in which the create awaited by p is answered with
\* success = false
CreateFails(p) ==
    \/ WakeCreateReturnsTo(p, FALSE)
    \/ SplitCreateReturnsTo(p, FALSE)
    \/ OpenCreateReturnsTo(p, FALSE)

\* After the step the caller can tell that the tile of p is in error: the
\* tile holds an error state, or split resolves to something else than it
\* does when the view is created
FailureSurfaced(p) ==
    \/ hasError(Cur, p.tileId)'
    \/ p.op = "split" /\ splitReturns(p, FALSE) # splitReturns(p, TRUE)

\* C22: when the provider's create reports success = false during split or
\* wake, the failure is surfaced as an error state of that tile that the
\* caller can observe; it is not silently swallowed.
CreateFailureSurfaced ==
    [][\A p \in DOMAIN procs : CreateFails(p) => FailureSurfaced(p)]_vars

\* What the manager holds of a tile: whether it has a proxy and a sleeping
\* record, and the bounds and the snapshot in them
RecordOf(t) ==
    [live |-> t \in tileProxies,
     sleeping |-> t \in sleepingTiles,
     bounds |-> IF t \in tileProxies THEN proxyBounds[t] ELSE Null,
     snapshot |-> IF t \in sleepingTiles THEN snapshots[t] ELSE "none"]

\* The step in which a wake's create fails or a sleep's capture rejects
LifecycleFails(p) ==
    \/ WakeCreateReturnsTo(p, FALSE)
    \/ CaptureReturnsTo(p, FALSE)

\* A view creation failing now, for any tile, changes nothing
FailedCreateChangesNothing ==
    \A t \in KnownTiles \cup {AbsentTile} : createTile(Cur, t, DefaultUrl, FALSE, Response(FALSE, 0)) = Cur

\* A lifecycle failure of p's tile leaves the tree and the other tiles'
\* records as they were
OthersUntouched ==
    \A p \in DOMAIN procs :
        LifecycleFails(p) =>
            /\ layout' = layout
            /\ \A u \in KnownTiles \ {p.tileId} : RecordOf(u)' = RecordOf(u)

RejectedCaptureGoesOn ==
    \A p \in DOMAIN procs :
        CaptureReturnsTo(p, FALSE) =>
            /\ p.tileId \in sleepingTiles'
            /\ snapshots'[p.tileId] = ""
            /\ CallsOf(SleepAtDestroy(p.tileId), procs')
                   = CallsOf(SleepAtDestroy(p.tileId), procs) + 1

\* The step in which the destroy of a sleep is answered takes the view
DestroyTakesView ==
    \A p \in DOMAIN procs :
        SleepDestroyReturnsTo(p) => p.tileId \notin tileProxies'

\* While a sleep awaits its capture, a pass made now gives every other
\* Live tile of the layout its rectangle
PassGoesOn ==
    \A t \in TileIdSet(layout) :
        CallsOf(SleepAtCapture(t), procs) > 0 =>
            \A u \in TileIdSet(layout) \ {t} :
                u \in tileProxies =>
                    updateLayout(Cur).proxyBounds[u] = BoundsOfTile(u)

\* C24: if the snapshot capture rejects during a sleep transition, the
\* transition still completes: the tile is recorded as Sleeping with an
\* empty snapshot and the view is destroyed, and the layout pass that
\* started it is not blocked for the other tiles.
SleepSurvivesCapture ==
    /\ [][RejectedCaptureGoesOn]_vars
    /\ [][DestroyTakesView]_vars
    /\ []PassGoesOn
    /\ \A t \in TileUniverse :
           (CallsOf(SleepAtDestroy(t), procs) > 0) ~> (t \notin tileProxies)

\* A tile is Sleeping with an empty snapshot and its view is gone
SleepSurvivesCaptureWitness ==
    \E t \in TileIdSet(layout) :
        /\ Sleeping(t)
        /\ snapshots[t] = ""
        /\ procs = EmptyBag

-----------------------------------------------------------------------------
(* serialize and restore *)

\* C26: whenever serialize() is called, also while sleep, wake, split or
\* close operations await the view provider, its tiles list has exactly one
\* record for every tile id of the serialized layout tree and no record
\* for an id that is not in that tree.
SerializedTilesMatchTree ==
    LET ws == serialize(Cur)
        RecordsOf(t) == {i \in 1..Len(ws.tiles) : ws.tiles[i].id = t}
    IN  /\ \A t \in TileIdSet(ws.layout) : Cardinality(RecordsOf(t)) = 1
        /\ \A i \in 1..Len(ws.tiles) : ws.tiles[i].id \in TileIdSet(ws.layout)

\* Two tiles, one Live and one Sleeping, nothing in flight: serialize
\* lists one record for each
SerializedTilesMatchTreeWitness ==
    /\ procs = EmptyBag
    /\ countTiles(layout) = 2
    /\ Len(serialize(Cur).tiles) = 2
    /\ \E t \in TileIdSet(layout) : Sleeping(t)
    /\ \E t \in TileIdSet(layout) : Live(t)

\* C25: when no transition is in flight and all view creations succeed,
\* restore(serialize(...)) yields the same layout tree, the same set of
\* tile records over Live and Sleeping tiles together, and the same
\* focusedTileId as before serialize.
RestoreOfSerialize ==
    procs = EmptyBag =>
        LET ws == serialize(Cur)
            st == restore(Cur, ws)
        IN  /\ st.layout = layout
            /\ SeqToSet(serialize(st).tiles) = SeqToSet(ws.tiles)
            /\ st.focusedTileId = focusedTileId

\* Nothing is in flight, one tile is Live and focused and the other is
\* Sleeping: restore makes both Live and keeps the focus
RestoreOfSerializeWitness ==
    /\ procs = EmptyBag
    /\ countTiles(layout) = 2
    /\ Live(focusedTileId)
    /\ \E t \in TileIdSet(layout) : Sleeping(t)
    /\ restore(Cur, serialize(Cur)).tileProxies = TileIdSet(layout)
    /\ restore(Cur, serialize(Cur)).focusedTileId = focusedTileId

-----------------------------------------------------------------------------
(* findAdjacentTile on the two tiles of one split *)

\* Every ratio of the clamp range, in hundredths
RatiosInRange == MinRatio..MaxRatio

\* C27: for a tree that is a single vertical split with leaves A (first)
\* and B (second), any ratio in [0.1, 0.9] and any container with positive
\* width and height, findAdjacentTile on calculateBounds' output returns B
\* from A with 'right' and A from B with 'left'; likewise 'down' and 'up'
\* for a horizontal split.
AdjacentIsSymmetric ==
    (layout.type = "split" /\ layout.first.type = "leaf"
                           /\ layout.second.type = "leaf") =>
        \A ratio \in RatiosInRange, cb \in ContainerArgs :
            LET tree == [layout EXCEPT !.ratio = ratio]
                out == calculateBounds(tree, cb)
                A == tree.first.tileId
                B == tree.second.tileId
            IN  IF tree.direction = "vertical"
                THEN /\ findAdjacentTile(out, A, "right") = B
                     /\ findAdjacentTile(out, B, "left") = A
                ELSE /\ findAdjacentTile(out, A, "down") = B
                     /\ findAdjacentTile(out, B, "up") = A

\* calculateBounds has measured a single vertical split at 0.9 in a
\* container one pixel wide, where the second tile has no width
AdjacentIsSymmetricWitness ==
    /\ result.op = "calculateBounds"
    /\ result.tree = layout
    /\ layout.type = "split" /\ layout.direction = "vertical"
    /\ layout.first.type = "leaf" /\ layout.second.type = "leaf"
    /\ layout.ratio = MaxRatio
    /\ result.arg.width = 1
    /\ result.out[2].bounds.width = 0
    /\ findAdjacentTile(result.out, layout.first.tileId, "right")
           = layout.second.tileId

-----------------------------------------------------------------------------
(* Two calls of a layout-tree function with equal arguments *)

\* The uuids a call draws, and those the call after it draws: uuidv4
\* never gives the same value twice
FirstDraw == Uuids(nextUuid, 3)
SecondDraw == Uuids(nextUuid + 3, 3)

\* C28: every layout-tree function is deterministic: two calls with equal
\* inputs return equal outputs.  Of the functions named, splitNode alone
\* draws uuids (bsp.ts 48-49, 62, 82); the others are functions of their
\* arguments and are equal to themselves.
SplitNodeDeterministic ==
    \A targetId \in TargetArgs(layout), direction \in SplitDirections,
       ratio \in RatioArgs :
        splitNode(layout, targetId, direction, ratio, FirstDraw)
            = splitNode(layout, targetId, direction, ratio, SecondDraw)

-----------------------------------------------------------------------------
(* The layout-tree functions on a heap of node objects.  A heap is the
   sequence of the objects made so far and a reference is a place in it,
   0 for null; the first and second of a split are references.  An object
   literal, a spread included, makes a new object; an assignment to a
   field of an object changes the heap where the object is. *)

NoRef == 0
Alloc(heap, node) == [heap |-> Append(heap, node), ref |-> Len(heap) + 1]
Same(heap, ref) == [heap |-> heap, ref |-> ref]

\* The tree put on the heap, children first
RECURSIVE ToHeap(_, _)
ToHeap(heap, tree) ==
    IF tree.type = "leaf" THEN Alloc(heap, tree)
    ELSE LET f == ToHeap(heap, tree.first)
             g == ToHeap(f.heap, tree.second)
         IN  Alloc(g.heap, [tree EXCEPT !.first = f.ref, !.second = g.ref])

\* The tree a reference stands for
RECURSIVE TreeAt(_, _)
TreeAt(heap, ref) ==
    IF ref = NoRef THEN Null
    ELSE IF heap[ref].type = "leaf" THEN heap[ref]
    ELSE [heap[ref] EXCEPT !.first = TreeAt(heap, heap[ref].first),
                           !.second = TreeAt(heap, heap[ref].second)]

\* splitNodeRecursive (71-107)
RECURSIVE splitNodeRecursiveOnHeap(_, _, _, _, _, _, _, _)
splitNodeRecursiveOnHeap(heap, node, targetId, direction, ratio, newTileId, uLeaf, uSplit) ==
    IF heap[node].type = "leaf"
    THEN IF heap[node].id = targetId \/ heap[node].tileId = targetId
         THEN LET newLeaf == Alloc(heap, createLeaf(uLeaf, newTileId))
              IN  Alloc(newLeaf.heap,
                        [type |-> "split", id |-> uSplit,
                         direction |-> direction, ratio |-> ratio,
                         first |-> node, second |-> newLeaf.ref])
         ELSE Same(heap, NoRef)
    ELSE LET firstResult ==
                 splitNodeRecursiveOnHeap(heap, heap[node].first, targetId,
                                          direction, ratio, newTileId, uLeaf,
                                          uSplit)
         IN  IF firstResult.ref # NoRef
             THEN Alloc(firstResult.heap,
                        [firstResult.heap[node] EXCEPT
                            !.first = firstResult.ref])
             ELSE LET secondResult ==
                          splitNodeRecursiveOnHeap(
                              firstResult.heap, firstResult.heap[node].second,
                              targetId, direction, ratio, newTileId, uLeaf,
                              uSplit)
                  IN  IF secondResult.ref # NoRef
                      THEN Alloc(secondResult.heap,
                                 [secondResult.heap[node] EXCEPT
                                     !.second = secondResult.ref])
                      ELSE Same(secondResult.heap, NoRef)

\* splitNode (56-69); the reference is that of newRoot
splitNodeOnHeap(heap, root, targetId, direction, ratio, u) ==
    splitNodeRecursiveOnHeap(heap, root, targetId, direction, ratio,
                             u[1], u[2], u[3])

IsTargetAt(heap, ref, targetId) ==
    /\ heap[ref].type = "leaf"
    /\ (heap[ref].id = targetId \/ heap[ref].tileId = targetId)

\* removeNode (113-151); !== compares references
RECURSIVE removeNodeOnHeap(_, _, _)
removeNodeOnHeap(heap, root, targetId) ==
    IF heap[root].type = "leaf"
    THEN IF IsTargetAt(heap, root, targetId) THEN Same(heap, NoRef)
         ELSE Same(heap, root)
    ELSE IF IsTargetAt(heap, heap[root].first, targetId)
    THEN Same(heap, heap[root].second)
    ELSE IF IsTargetAt(heap, heap[root].second, targetId)
    THEN Same(heap, heap[root].first)
    ELSE LET newFirst == removeNodeOnHeap(heap, heap[root].first, targetId)
             h1 == newFirst.heap
         IN  IF newFirst.ref # h1[root].first
             THEN IF newFirst.ref = NoRef THEN Same(h1, h1[root].second)
                  ELSE Alloc(h1, [h1[root] EXCEPT !.first = newFirst.ref])
             ELSE LET newSecond ==
                          removeNodeOnHeap(h1, h1[root].second, targetId)
                      h2 == newSecond.heap
                  IN  IF newSecond.ref # h2[root].second
                      THEN IF newSecond.ref = NoRef
                           THEN Same(h2, h2[root].first)
                           ELSE Alloc(h2, [h2[root] EXCEPT
                                              !.second = newSecond.ref])
                      ELSE Same(h2, root)

\* resizeSplit, were it to assign the ratio to the split it finds
RECURSIVE resizeSplitInPlace(_, _, _, _)
resizeSplitInPlace(heap, root, splitId, newRatio) ==
    IF heap[root].type = "leaf" THEN Same(heap, root)
    ELSE IF heap[root].id = splitId
    THEN Same([heap EXCEPT ![root].ratio = Clamp(newRatio)], root)
    ELSE LET f == resizeSplitInPlace(heap, heap[root].first, splitId, newRatio)
             g == resizeSplitInPlace(f.heap, f.heap[root].second, splitId,
                                     newRatio)
         IN  Same(g.heap, root)

\* resizeSplit (156-176)
RECURSIVE resizeSplitOnHeap(_, _, _, _)
resizeSplitOnHeap(heap, root, splitId, newRatio) ==
    IF heap[root].type = "leaf" THEN Same(heap, root)
    ELSE IF heap[root].id = splitId
    THEN Alloc(heap, [heap[root] EXCEPT !.ratio = Clamp(newRatio)])
    ELSE LET f == resizeSplitOnHeap(heap, heap[root].first, splitId, newRatio)
             g == resizeSplitOnHeap(f.heap, f.heap[root].second, splitId,
                                    newRatio)
         IN  Alloc(g.heap, [g.heap[root] EXCEPT !.first = f.ref,
                                                !.second = g.ref])

\* swapTilesRecursive (356-376)
RECURSIVE swapTilesRecursiveOnHeap(_, _, _, _)
swapTilesRecursiveOnHeap(heap, node, tileId1, tileId2) ==
    IF heap[node].type = "leaf"
    THEN IF heap[node].tileId = tileId1
         THEN Alloc(heap, [heap[node] EXCEPT !.tileId = tileId2])
         ELSE IF heap[node].tileId = tileId2
         THEN Alloc(heap, [heap[node] EXCEPT !.tileId = tileId1])
         ELSE Same(heap, node)
    ELSE LET f == swapTilesRecursiveOnHeap(heap, heap[node].first, tileId1,
                                           tileId2)
             g == swapTilesRecursiveOnHeap(f.heap, f.heap[node].second,
                                           tileId1, tileId2)
         IN  Alloc(g.heap, [g.heap[node] EXCEPT !.first = f.ref,
                                                !.second = g.ref])

\* swapTiles (348-354)
swapTilesOnHeap(heap, root, tileId1, tileId2) ==
    swapTilesRecursiveOnHeap(heap, root, tileId1, tileId2)

\* adjustSplitInDirection (419-469): findAncestorSplits and whichChild
\* read the tree and make arrays only; resizeSplit makes the result
adjustSplitInDirectionOnHeap(heap, root, tileId, direction, delta) ==
    LET ancestors == findAncestorSplits(TreeAt(heap, root), tileId, << >>)
        splitDirection == IF direction \in {"left", "right"}
                          THEN "vertical" ELSE "horizontal"
        matching == {i \in 1..Len(ancestors) :
                        ancestors[i].direction = splitDirection}
    IN  IF Len(ancestors) = 0 \/ matching = {} THEN Same(heap, root)
        ELSE LET i == CHOOSE k \in matching : \A j \in matching : j <= k
                 split == ancestors[i]
             IN  resizeSplitOnHeap(heap, root, split.id,
                                   Clamp(split.ratio
                                         + adjustedDelta(split, tileId,
                                                         direction, delta)))

\* The heap after the call holds every object of the heap before it,
\* unchanged, and the reference returned stands for the tree `out`
Unmutated(before, after, out) ==
    /\ Len(after.heap) >= Len(before.heap)
    /\ SubSeq(after.heap, 1, Len(before.heap)) = before.heap
    /\ TreeAt(after.heap, after.ref) = out

\* C29: no layout-tree operation mutates its argument: after splitNode,
\* removeNode, resizeSplit, swapTiles or adjustSplitInDirection returns,
\* the tree that was passed in is structurally identical to what it was
\* before the call; the result is a new tree or the same unchanged tree.
ArgumentNeverMutated ==
    LET arg == ToHeap(<< >>, layout)
        h == arg.heap
        root == arg.ref
    IN  /\ \A targetId \in TargetArgs(layout), direction \in SplitDirections,
              ratio \in RatioArgs :
               LET out == splitNode(layout, targetId, direction, ratio,
                                    FirstDraw)
               IN  Unmutated(arg,
                             splitNodeOnHeap(h, root, targetId, direction,
                                             ratio, FirstDraw),
                             IF out = Null THEN Null ELSE out.newRoot)
        /\ \A targetId \in TargetArgs(layout) :
               Unmutated(arg, removeNodeOnHeap(h, root, targetId),
                         removeNode(layout, targetId))
        /\ \A splitId \in SplitArgs(layout), newRatio \in RatioArgs :
               Unmutated(arg, resizeSplitOnHeap(h, root, splitId, newRatio),
                         resizeSplit(layout, splitId, newRatio))
        /\ \A a, b \in TileIdSet(layout) \cup {AbsentId} :
               Unmutated(arg, swapTilesOnHeap(h, root, a, b),
                         swapTiles(layout, a, b))
        /\ \A tileId \in TileIdSet(layout) \cup {AbsentId},
              direction \in Directions, delta \in DeltaArgs :
               Unmutated(arg,
                         adjustSplitInDirectionOnHeap(h, root, tileId,
                                                      direction, delta),
                         adjustSplitInDirection(layout, tileId, direction,
                                                delta))

\* resizeSplit has been called on a tree of three leaves with a ratio
\* outside the clamp range, and has changed a ratio in the tree it returned
ArgumentNeverMutatedWitness ==
    /\ result.op = "resizeSplit"
    /\ result.arg > MaxRatio
    /\ countTiles(layout) = 3
    /\ \E sp \in SplitsOf(layout) : sp.ratio = MaxRatio

\* The split or openInNewTile `q` of a tile other than the one being
\* closed has run, up to its await, while the closeTile `p` awaits the
\* destroy: its new tile came into the tree after closeTile took its
\* newLayout
SplitDuringClose(p, q) ==
    /\ p.op = "closeTile" /\ p.pc = "destroy"
    /\ q.op \in {"split", "openInNewTile"} /\ q.pc = "create"
    /\ q.tileId # p.tileId
    /\ q.tileId \in TileIdSet(layout)
    /\ q.tileId \notin TileIdSet(p.newLayout)
    /\ LET split == findParentSplit(layout, q.tileId, Null)
       IN  /\ split.second = LeafOf(layout, q.tileId)
           /\ split.first.type = "leaf"
           /\ split.first.tileId # p.tileId

\* C30: structural operations do not lose each other's updates: when a
\* split or an openInNewTile has run while a closeTile of another tile was
\* awaiting the destroy, the tree that the completed closeTile leaves, and
\* that the rest of the split leaves as it is, contains the new tile and
\* does not contain the closed tile.
StructuralUpdatesKept ==
    [][\A p \in DOMAIN procs, q \in DOMAIN procs :
           (SplitDuringClose(p, q) /\ CloseDestroyReturnsTo(p))
               => /\ q.tileId \in TileIdSet(layout')
                  /\ p.tileId \notin TileIdSet(layout')]_vars

\* A closeTile awaits its destroy and a split made since awaits its create
StructuralUpdatesKeptWitness ==
    \E p \in DOMAIN procs, q \in DOMAIN procs :
        /\ SplitDuringClose(p, q)
        /\ BagCardinality(procs) = 2

-----------------------------------------------------------------------------
(* findAdjacentTile among the tiles calculateBounds lays out *)

\* Twice the centre of a rectangle
CentreX2(b) == 2 * b.x + b.width
CentreY2(b) == 2 * b.y + b.height

\* The tile of rectangle b is on the given side of the tile of rectangle c:
\* its far edge is at most 5 past c's near edge and its centre is strictly
\* on that side
Qualifies(b, c, direction) ==
    CASE direction = "left" ->
             b.x + b.width <= c.x + 5 /\ CentreX2(b) < CentreX2(c)
      [] direction = "right" ->
             b.x >= c.x + c.width - 5 /\ CentreX2(b) > CentreX2(c)
      [] direction = "up" ->
             b.y + b.height <= c.y + 5 /\ CentreY2(b) < CentreY2(c)
      [] direction = "down" ->
             b.y >= c.y + c.height - 5 /\ CentreY2(b) > CentreY2(c)

\* Twice the score: 2 x |cross-axis centre difference| + primary-axis
\* centre distance
ScoreOf2(b, c, direction) ==
    IF direction \in {"left", "right"}
    THEN 2 * Abs(CentreY2(b) - CentreY2(c)) + Abs(CentreX2(b) - CentreX2(c))
    ELSE 2 * Abs(CentreX2(b) - CentreX2(c)) + Abs(CentreY2(b) - CentreY2(c))

\* C34: findAdjacentTile(boundsList, current, direction) returns null
\* exactly when no other tile qualifies; otherwise it returns a qualifying
\* tile whose score is least among the qualifying tiles, never the
\* current tile.
AdjacentIsBestQualifying ==
    \A cb \in ContainerArgs, current \in TileIdSet(layout),
       direction \in Directions :
        LET out == calculateBounds(layout, cb)
            c == RectOf(out, current)
            others == TileIdSet(layout) \ {current}
            qualifying == {t \in others :
                              Qualifies(RectOf(out, t), c, direction)}
            got == findAdjacentTile(out, current, direction)
        IN  /\ (got = 0) <=> (qualifying = {})
            /\ got # 0 =>
                   /\ got # current
                   /\ got \in qualifying
                   /\ \A t \in qualifying :
                          ScoreOf2(RectOf(out, got), c, direction)
                              <= ScoreOf2(RectOf(out, t), c, direction)

\* calculateBounds has measured three tiles of which two qualify on one
\* side of the third with different scores, and findAdjacentTile gives
\* the one that comes second in the list
AdjacentIsBestQualifyingWitness ==
    /\ result.op = "calculateBounds"
    /\ result.tree = layout
    /\ Len(result.out) = 3
    /\ \E direction \in Directions :
           LET c == result.out[1].bounds
           IN  /\ Qualifies(result.out[2].bounds, c, direction)
               /\ Qualifies(result.out[3].bounds, c, direction)
               /\ ScoreOf2(result.out[3].bounds, c, direction)
                      < ScoreOf2(result.out[2].bounds, c, direction)
               /\ findAdjacentTile(result.out, result.out[1].tileId,
                                   direction) = result.out[3].tileId

-----------------------------------------------------------------------------
(* adjustSplitInDirection and the split it adjusts *)

\* The splits above the tile whose direction the given direction matches
MatchingAncestors(tree, tileId, direction) ==
    {sp \in SplitsOf(tree) :
        /\ sp.direction = IF direction \in {"left", "right"}
                          THEN "vertical" ELSE "horizontal"
        /\ containsTile(sp, tileId)}

\* The one of them that lies inside all the others
Innermost(splits) ==
    CHOOSE sp \in splits : \A o \in splits : sp \in SplitsOf(o)

RatioOf(tree, splitId) ==
    (CHOOSE sp \in SplitsOf(tree) : sp.id = splitId).ratio

\* Two trees alike in everything but, at most, the ratio of the split
\* with the given id
RECURSIVE SameBut(_, _, _)
SameBut(t1, t2, splitId) ==
    IF t1.type = "leaf" \/ t2.type = "leaf" THEN t1 = t2
    ELSE /\ t1.id = t2.id
         /\ t1.direction = t2.direction
         /\ (t1.ratio = t2.ratio \/ t1.id = splitId)
         /\ SameBut(t1.first, t2.first, splitId)
         /\ SameBut(t1.second, t2.second, splitId)

\* C35: adjustSplitInDirection changes the ratio of at most one split,
\* the innermost ancestor split of the tile whose direction is vertical
\* for left/right and horizontal for up/down; every other split and leaf
\* is unchanged, and when the tile has no such ancestor or is not in the
\* tree the original tree is returned unchanged.
AdjustsInnermostOnly ==
    \A tileId \in TileIdSet(layout) \cup {AbsentId},
       direction \in Directions, delta \in DeltaArgs :
        LET out == adjustSplitInDirection(layout, tileId, direction, delta)
            matching == MatchingAncestors(layout, tileId, direction)
        IN  IF matching = {} THEN out = layout
            ELSE SameBut(layout, out, Innermost(matching).id)

\* adjustSplitInDirection has been called on a tree in which a tile has
\* two ancestors of one direction, and their ratios differ
AdjustsInnermostOnlyWitness ==
    /\ result.op = "adjustSplitInDirection"
    /\ \E tileId \in TileIdSet(layout), direction \in Directions :
           LET matching == MatchingAncestors(layout, tileId, direction)
           IN  /\ Cardinality(matching) = 2
               /\ \E sp \in matching :
                      sp.ratio # Innermost(matching).ratio

\* Positive deltas, resizeInDirection's default 0.05 among them
PositiveDeltas == {5, 40, 1000}

\* The ratio the adjusted split has after the call, the tile having a
\* matching ancestor
AdjustedRatio(tree, tileId, direction, delta) ==
    RatioOf(adjustSplitInDirection(tree, tileId, direction, delta),
            Innermost(MatchingAncestors(tree, tileId, direction)).id)

\* Calls that differ only in the child of the adjusted split in which the
\* tile lies: the split is the nearest matching ancestor of both tiles
DifferInPosition(sp, a, b, direction) ==
    /\ containsTile(sp.first, a)
    /\ containsTile(sp.second, b)
    /\ MatchingAncestors(layout, a, direction) # {}
    /\ MatchingAncestors(layout, b, direction) # {}
    /\ Innermost(MatchingAncestors(layout, a, direction)) = sp
    /\ Innermost(MatchingAncestors(layout, b, direction)) = sp

PositionPairs ==
    {c \in [sp : SplitsOf(layout), a : TileIdSet(layout),
            b : TileIdSet(layout), direction : Directions] :
        DifferInPosition(c.sp, c.a, c.b, c.direction)}

DividerMovesInDirection ==
    \A tileId \in TileIdSet(layout), direction \in Directions,
       delta \in PositiveDeltas :
        LET matching == MatchingAncestors(layout, tileId, direction)
            ratio == Innermost(matching).ratio
            moved == IF direction \in {"right", "down"}
                     THEN ratio + delta ELSE ratio - delta
        IN  matching # {} =>
                AdjustedRatio(layout, tileId, direction, delta)
                    = IF moved < MinRatio THEN MinRatio
                      ELSE IF moved > MaxRatio THEN MaxRatio
                      ELSE moved

\* adjustSplitInDirection has been called with a positive delta and has
\* left a split at the upper end of the range, and a tile in the second
\* child of a split has that split as its nearest matching ancestor
DividerMovesInDirectionWitness ==
    /\ result.op = "adjustSplitInDirection"
    /\ result.arg > 0
    /\ \E sp \in SplitsOf(layout) : sp.ratio = MaxRatio
    /\ \E sp \in SplitsOf(layout), t \in TileIdSet(layout) :
           /\ containsTile(sp.second, t)
           /\ MatchingAncestors(layout, t, "left") # {}
           /\ Innermost(MatchingAncestors(layout, t, "left")) = sp

-----------------------------------------------------------------------------
(* resizeSplit *)

\* C38: resizeSplit(root, splitId, r) returns a tree structurally
\* identical to root except that the split whose id is splitId has ratio
\* min(0.9, max(0.1, r)); no other node's id, direction, ratio, child
\* order or tileId changes, for any r.
ResizeSplitChangesOneRatio ==
    \A splitId \in SplitArgs(layout), r \in RatioArgs \cup PositiveDeltas :
        LET out == resizeSplit(layout, splitId, r)
        IN  /\ SameBut(layout, out, splitId)
            /\ \A sp \in SplitsOf(layout) :
                   sp.id = splitId =>
                       RatioOf(out, splitId)
                           = IF r < MinRatio THEN MinRatio
                             ELSE IF r > MaxRatio THEN MaxRatio
                             ELSE r

\* resizeSplit has been called with a ratio in the range on a split that
\* is the first child of the root, and the root's ratio is another
ResizeSplitChangesOneRatioWitness ==
    /\ result.op = "resizeSplit"
    /\ result.arg = 10
    /\ layout.type = "split"
    /\ layout.first.type = "split"
    /\ layout.first.ratio = 10
    /\ layout.ratio = 50

\* C39: when the target id is absent from the tree, resizeSplit signals
\* it with a null return value, as splitNode does, and does not throw.
ResizeSplitSignalsAbsent ==
    \A splitId \in SplitArgs(layout), r \in RatioArgs :
        (layout.type = "split" /\ \A sp \in SplitsOf(layout) : sp.id # splitId) =>
            /\ splitNode(layout, splitId, "vertical", r, FirstDraw) = Null
            /\ resizeSplit(layout, splitId, r) = Null

\* resizeSplit has been called on a tree that has a split, and an id of
\* no node of the tree gives splitNode null and resizeSplit the tree
ResizeSplitSignalsAbsentWitness ==
    /\ result.op = "resizeSplit"
    /\ layout.type = "split"
    /\ splitNode(layout, AbsentId, "vertical", 50, FirstDraw) = Null
    /\ resizeSplit(layout, AbsentId, 50) = layout

-----------------------------------------------------------------------------
(* The webview-based TileManager: tile-manager.ts.  Its state here is the
   tree, the map `tiles` from tile id to the tile object (named by the
   webview it holds), the focused tile id, the container, the rectangle
   each webview's style has, and the tiles a sleepTile has been started
   for. *)

\* A manager whose tiles are all Live, each webview named after the tile
\* id it was made for, after an updateLayout in the container
WebviewManager(tree, focused, cb) ==
    [layout |-> tree,
     tiles |-> [t \in TileIdSet(tree) |-> t],
     focusedTileId |-> focused,
     container |-> cb,
     rect |-> [w \in TileIdSet(tree) |-> RectOf(calculateBounds(tree, cb), w)],
     sleeping |-> {}]

\* The loop of updateLayout (520-552) from the i-th tile on; no tile is
\* Sleeping when it starts
RECURSIVE updateLayoutOfWebviewsFrom(_, _, _)
updateLayoutOfWebviewsFrom(st, tileBounds, i) ==
    IF i > Len(tileBounds) THEN st
    ELSE LET tileId == tileBounds[i].tileId
             bounds == tileBounds[i].bounds
             next ==
                 IF tileId \in DOMAIN st.tiles
                 THEN IF shouldSleep(bounds) /\ tileId # st.focusedTileId
                      THEN [st EXCEPT !.sleeping = @ \cup {tileId}]
                      ELSE [st EXCEPT !.rect[st.tiles[tileId]] = bounds]
                 ELSE st
         IN  updateLayoutOfWebviewsFrom(next, tileBounds, i + 1)

\* updateLayout (510-563)
updateLayoutOfWebviews(st) ==
    updateLayoutOfWebviewsFrom(st, calculateBounds(st.layout, st.container), 1)

\* swapDirection(direction) and what it returns (811-841)
swapDirectionOfWebviews(st, direction) ==
    IF st.focusedTileId = 0 THEN Returned(st, "false")
    ELSE LET focused == st.focusedTileId
             adjacentId == findAdjacentTile(
                               calculateBounds(st.layout, st.container),
                               focused, direction)
         IN  IF adjacentId = 0 THEN Returned(st, "false")
             ELSE LET st1 == [st EXCEPT
                                 !.layout = swapTiles(@, focused, adjacentId)]
                      st2 == IF focused \in DOMAIN st1.tiles
                                /\ adjacentId \in DOMAIN st1.tiles
                             THEN [st1 EXCEPT
                                      !.tiles[adjacentId] = st.tiles[focused],
                                      !.tiles[focused] = st.tiles[adjacentId],
                                      !.focusedTileId = adjacentId]
                             ELSE st1
                  IN  Returned(updateLayoutOfWebviews(st2), "true")

\* Containers of the webview manager: the default window and the smallest
WebviewContainers ==
    {Bounds(0, 0, size[1], size[2]) : size \in ContainerSizes}

\* C40: in the webview-based TileManager, swapDirection(direction) between
\* two Live tiles exchanges which content occupies which rectangle: after
\* the call and its layout recompute the originally focused tile's
\* webview is laid out in the rectangle the adjacent tile's webview had
\* before, the adjacent webview is in the focused one's former rectangle,
\* and the originally focused webview is still the focused one.
WebviewSwapExchanges ==
    \A focused \in TileIdSet(layout), direction \in Directions,
       cb \in WebviewContainers :
        LET st == WebviewManager(layout, focused, cb)
            call == swapDirectionOfWebviews(st, direction)
            adjacent == findAdjacentTile(calculateBounds(layout, cb),
                                         focused, direction)
        IN  (/\ call.returned = "true"
             /\ ~shouldSleep(st.rect[focused])
             /\ ~shouldSleep(st.rect[adjacent])) =>
                /\ call.st.rect[focused] = st.rect[adjacent]
                /\ call.st.rect[adjacent] = st.rect[focused]
                /\ call.st.tiles[call.st.focusedTileId] = focused

\* Two tiles side by side, both large, the first focused: swapDirection
\* to the right returns true, the focused webview is still the focused
\* one, and each webview has the rectangle it had
WebviewSwapExchangesWitness ==
    /\ layout.type = "split"
    /\ layout.first.type = "leaf" /\ layout.second.type = "leaf"
    /\ layout.direction = "vertical" /\ layout.ratio = 50
    /\ LET A == layout.first.tileId
           B == layout.second.tileId
           st == WebviewManager(layout, A, Bounds(0, 0, 1280, 748))
           call == swapDirectionOfWebviews(st, "right")
       IN  /\ call.returned = "true"
           /\ call.st.sleeping = {}
           /\ call.st.layout.first.tileId = B
           /\ call.st.tiles[call.st.focusedTileId] = A
           /\ call.st.rect = st.rect

-----------------------------------------------------------------------------
(* The order of the steps of sleepTile *)

TeardownRequested(t) ==
    \E q \in DOMAIN procs :
        q.op = "sleepTile" /\ q.pc = "destroy" /\ q.tileId = t

\* C32: in the Live -> Sleeping transition the snapshot capture is
\* requested first, then the content-view teardown is requested, and only
\* after the teardown is the retained metadata recorded under the tile id
\* and the tile marked Sleeping: the step that takes the capture's answer
\* and requests the teardown does not yet record the tile, and the step
\* that takes the teardown's answer leaves it recorded.
SleepStepsInOrder ==
    [][\A p \in DOMAIN procs :
           /\ \A resolved \in BOOLEAN :
                  (CaptureReturnsTo(p, resolved)
                       /\ p.tileId \notin sleepingTiles)
                      => /\ TeardownRequested(p.tileId)'
                         /\ p.tileId \notin sleepingTiles'
           /\ SleepDestroyReturnsTo(p) => p.tileId \in sleepingTiles'
      ]_vars

\* A sleepTile awaits the teardown of a tile that still has its proxy and
\* is already recorded as Sleeping
SleepStepsInOrderWitness ==
    \E t \in tileProxies :
        /\ TeardownRequested(t)
        /\ t \in sleepingTiles
        /\ \A q \in DOMAIN procs : q.tileId = t => q.pc = "destroy"
        /\ BagCardinality(procs) = 1


-----------------------------------------------------------------------------
(* The views of the provider *)

\* The view ids the Live tile records hold
HeldViews == {proxyOf[t] : t \in tileProxies}

\* C31: whenever no provider call is in flight, the views that exist at
\* the provider (TileViewManager.views) are the views whose ids the Live
\* tile records of tileProxies hold.
NoViewLeaks == procs = EmptyBag => DOMAIN views = HeldViews

\* A tile is Sleeping with nothing in flight, its view destroyed, and every
\* view of the provider is held by a Live tile record
NoViewLeaksWitness ==
    /\ procs = EmptyBag
    /\ \E t \in TileIdSet(layout) : Sleeping(t)
    /\ DOMAIN views = HeldViews
    /\ Cardinality(DOMAIN views) < countTiles(layout)

-----------------------------------------------------------------------------
(* The metadata of a tile over a sleep and a wake *)

\* The step in which sleepTile records the metadata of p's tile keeps what
\* the tile's proxy holds in that step
SleepKeepsMetadata(p) ==
    (/\ p.tileId \in tileProxies
     /\ \E resolved \in BOOLEAN : CaptureReturnsTo(p, resolved)) =>
        sleepingInfo'[p.tileId] = Metadata(proxyObjects[proxyOf[p.tileId]])

\* The step in which the create of the wake p is answered with success
\* makes a view of the retained url and a proxy of the retained url and
\* mute flag
WakeRecreates(p) ==
    WakeCreateReturnsTo(p, TRUE) =>
        /\ p.tileId \in tileProxies'
        /\ views'[proxyOf'[p.tileId]].url = p.tile.url
        /\ proxyObjects'[proxyOf'[p.tileId]].url = p.tile.url
        /\ proxyObjects'[proxyOf'[p.tileId]].isMuted = p.tile.isMuted

\* The step that ends the wake p leaves the tile's proxy with the retained
\* title, and its view muted if the retained mute flag was set
WakeRestores(p) ==
    ((WakeCreateReturnsTo(p, TRUE) /\ ~p.tile.isMuted) \/ WakeMuteReturnsTo(p))
        => (p.tileId \in tileProxies' =>
               /\ proxyObjects'[proxyOf'[p.tileId]].title = p.tile.title
               /\ p.tile.isMuted /\ proxyOf'[p.tileId] = p.view
                      => views'[p.view].isMuted)

\* C33: a sleep followed by a wake preserves the tile's metadata: the
\* sleep retains the url, title and mute flag the tile has when it is
\* recorded as sleeping, the wake recreates the view with the retained url
\* and mute flag, and after the wake the tile's url, title and isMuted are
\* the retained ones.
SleepWakeKeepsMetadata ==
    [][\A p \in DOMAIN procs :
           SleepKeepsMetadata(p) /\ WakeRecreates(p) /\ WakeRestores(p)]_vars

\* A wake that holds a navigated url and a set mute flag awaits setMuted
SleepWakeKeepsMetadataWitness ==
    \E p \in DOMAIN procs :
        /\ p.op = "wakeTile" /\ p.pc = "setMuted"
        /\ p.tile.url # DefaultUrl /\ p.tile.isMuted
=============================================================================
